---- MODULE Spec2Model ----
(***************************************************************************)
(* Kanpy: the workspace manager and its entity model.                      *)
(*                                                                         *)
(* The manager (workspace_manager) is modelled from src/app_classes.py;    *)
(* the Board/List/Card tree is modelled from src/temp_classes.py, the      *)
(* iteration of the same module whose Board carries lists and cards.  The  *)
(* variable impl records which of the two iterations is running; the two   *)
(* differ in Board, in the cancel sentinel of the password prompt and in   *)
(* save_current_workspace stamping last_edited.                            *)
(***************************************************************************)
EXTENDS Integers, Sequences, FiniteSets, TLC

VARIABLES
    impl,                      \* "app_classes" or "temp_classes"
    available_workspaces,      \* workspace_manager.available_workspaces: name -> path
    current_workspace_object,  \* workspace_manager.current_workspace_object
    registry_file,             \* content of workspaces.json
    dirs,                      \* the workspace directories that exist
    files,                     \* path -> content of its workspace_data.json
    clock,                     \* datetime.datetime.now(utc)
    next_id,                   \* the uuid4 values handed out so far
    lastCall,                  \* the latest call, its arguments and what it returned
    saved,                     \* path -> workspace object written by the latest successful save or create
    fresh,                     \* paths whose data file is still the one create wrote
    crypto,                    \* the latest Encryption Helper call and what it returned
    app                        \* main.py: the selected Board on screen and the drag in progress

vars == << impl, available_workspaces, current_workspace_object, registry_file,
           dirs, files, clock, next_id, lastCall, saved, fresh, crypto, app >>

(***************************************************************************)
(* Bounds                                                                  *)
(***************************************************************************)
MaxTime == 1
MaxIds == 3
MaxText == 2

(***************************************************************************)
(* Program constants                                                       *)
(***************************************************************************)
MAX_PASSWORD_ATTEMPTS == 3
SALT_LENGTH == 16

(***************************************************************************)
(* Values                                                                  *)
(***************************************************************************)
PNone == "<None>"                      \* Python's None where a string is expected
None == [tag |-> "None"]               \* Python's None where an object is expected
NoFile == [kind |-> "absent"]
Garbage == [kind |-> "garbage"]        \* bytes that json.load rejects
Json(v) == [kind |-> "json", isdict |-> TRUE, val |-> v]
ParsesAsPlaintext(file) == file.kind = "json"      \* json.load(f) does not raise

INDIVIDUAL_WORKSPACES_DEFAULT_ROOT == "workspaces"

\* names are sequences of characters
Space == " "
NameInputs == { <<>>, <<Space>>, <<"a">>, <<Space, "a">>, <<"b">> }
OneNameInputs == { <<>>, <<Space>>, <<"a">>, <<"a", Space>> }
TreeNameInputs == { <<"a">> }
OpenNameInputs == { <<"a">>, <<"b">> }
ParentInputs == { "", "workspaces", "missing" }
ExistingParents == { "workspaces" }

NewPwdInputs == { PNone, "", "p" }
OldPwdInputs == { PNone, "p", "q" }
ListNames == { "todo" }
NewListNames == { "Todo" }
CardNames == { "milk" }

AttemptInputs(i) == IF i = "app_classes" THEN { "p", "q", "CANCEL" } ELSE { "p", "q", PNone }
CreateFaults == { "none", "makedirs", "write", "write_remove_fails", "write_rmdir_fails", "registry" }
SaveFaults == { "none", "open", "dump" }
OpenFaults == { "none", "ioerror" }

(***************************************************************************)
(* Python helpers                                                          *)
(***************************************************************************)
EmptyDict == [k \in {} |-> 0]
Get(d, k, default) == IF k \in DOMAIN d THEN d[k] ELSE default
DictSet(d, k, v) == [x \in (DOMAIN d) \cup {k} |-> IF x = k THEN v ELSE d[x]]
DictDel(d, k) == [x \in (DOMAIN d) \ {k} |-> d[x]]
Truthy(s) == s # PNone /\ s # ""        \* a str or None
NoId == 0                              \* card_id=None, list_id=None, board_id=None

RECURSIVE lstrip(_)
lstrip(s) == IF s # <<>> /\ Head(s) = Space THEN lstrip(Tail(s)) ELSE s

RECURSIVE rstrip(_)
rstrip(s) == IF s # <<>> /\ s[Len(s)] = Space THEN rstrip(SubSeq(s, 1, Len(s) - 1)) ELSE s

strip(s) == rstrip(lstrip(s))

join(parent, name) == << parent, name >>

isoformat(t) == [iso |-> t]
IsIsoString(s) == "iso" \in DOMAIN s
fromisoformat(s) == s.iso

(***************************************************************************)
(* Card, List (temp_classes.py)                                            *)
(***************************************************************************)
Card(name, description, card_id, gen) ==
    [ card_id |-> IF card_id # NoId THEN card_id ELSE gen,
      name |-> name,
      description |-> description ]

Card_to_dict(c) ==
    [ card_id |-> c.card_id, name |-> c.name, description |-> c.description ]

Card_from_dict(data, gen) ==
    Card(Get(data, "name", "Untitled Card"),
         Get(data, "description", "No description"),
         Get(data, "card_id", NoId), gen)

List(list_name, description, list_id, gen) ==
    [ list_id |-> IF list_id # NoId THEN list_id ELSE gen,
      list_name |-> list_name,
      description |-> description,
      cards |-> <<>> ]

List_add_card(l, card_object) ==
    IF \A i \in 1..Len(l.cards) : l.cards[i].card_id # card_object.card_id
    THEN [l EXCEPT !.cards = Append(@, card_object)]
    ELSE l

List_create_card(l, name, description, gen) ==
    [l EXCEPT !.cards = Append(@, Card(name, description, NoId, gen))]

List_remove_card(l, card_id_to_remove) ==
    [l EXCEPT !.cards = SelectSeq(@, LAMBDA c : c.card_id # card_id_to_remove)]

List_change_name(l, new_name) == [l EXCEPT !.list_name = new_name]

\* a to_dict that forgets the cards
List_to_dict_drops_cards(l) ==
    [ list_id |-> l.list_id,
      list_name |-> l.list_name,
      description |-> l.description,
      cards |-> <<>> ]

List_to_dict(l) ==
    [ list_id |-> l.list_id,
      list_name |-> l.list_name,
      description |-> l.description,
      cards |-> [i \in 1..Len(l.cards) |-> Card_to_dict(l.cards[i])] ]

RECURSIVE add_cards_from(_, _, _, _)
add_cards_from(l, card_data_list, i, gen) ==
    IF i > Len(card_data_list) THEN l
    ELSE add_cards_from(List_add_card(l, Card_from_dict(card_data_list[i], gen)),
                        card_data_list, i + 1, gen)

List_from_dict(data, gen) ==
    add_cards_from(List(Get(data, "list_name", "Untitled List"),
                        Get(data, "description", "No description"),
                        Get(data, "list_id", NoId), gen),
                   Get(data, "cards", <<>>), 1, gen)
(***************************************************************************)
(* Board: the placeholder of app_classes.py and the one of temp_classes.py *)
(***************************************************************************)
Board(name, board_id, gen) ==
    [ board_id |-> IF board_id # NoId THEN board_id ELSE gen,
      name |-> name,
      lists |-> <<>> ]

\* an add_list that also refuses a List whose name is on the Board
Board_add_list_refuses_live_name(b, list_object) ==
    IF \A i \in 1..Len(b.lists) :
           /\ b.lists[i].list_id # list_object.list_id
           /\ b.lists[i].name # list_object.name
    THEN [b EXCEPT !.lists = Append(@, list_object)]
    ELSE b
Board_add_list(b, list_object) ==
    IF \A i \in 1..Len(b.lists) : b.lists[i].list_id # list_object.list_id
    THEN [b EXCEPT !.lists = Append(@, list_object)]
    ELSE b

Board_create_list(b, list_name, description, gen) ==
    Board_add_list(b, List(list_name, description, NoId, gen))

Board_remove_list(b, list_id_to_remove) ==
    [b EXCEPT !.lists = SelectSeq(@, LAMBDA l : l.list_id # list_id_to_remove)]

Board_change_name(b, new_name) == [b EXCEPT !.name = new_name]

Board_to_dict_app(b) == [ name |-> b.name, lists_count |-> Len(b.lists) ]

Board_to_dict_temp(b) ==
    [ board_id |-> b.board_id,
      name |-> b.name,
      lists |-> [i \in 1..Len(b.lists) |-> List_to_dict(b.lists[i])] ]

Board_to_dict(i, b) ==
    IF i = "app_classes" THEN Board_to_dict_app(b) ELSE Board_to_dict_temp(b)

\* app_classes.py: Board has no board_id and from_dict reads the name alone
Board_from_dict_app(data) ==
    [ board_id |-> NoId, name |-> Get(data, "name", << "Unnamed Board from data" >>), lists |-> <<>> ]

RECURSIVE add_lists_from(_, _, _, _)
add_lists_from(b, list_data_list, i, gen) ==
    IF i > Len(list_data_list) THEN b
    ELSE add_lists_from(Board_add_list(b, List_from_dict(list_data_list[i], gen)),
                        list_data_list, i + 1, gen)

Board_from_dict_temp(data, gen) ==
    add_lists_from(Board(Get(data, "name", << "Unnamed Board from data" >>),
                         Get(data, "board_id", NoId), gen),
                   Get(data, "lists", <<>>), 1, gen)

Board_from_dict(i, data, gen) ==
    IF i = "app_classes" THEN Board_from_dict_app(data) ELSE Board_from_dict_temp(data, gen)

(***************************************************************************)
(* workspace                                                               *)
(***************************************************************************)
DefaultBoardName(name) == name \o << "'s Board" >>

\* the default Board workspace.__init__ makes when board_instance is None
DefaultBoard(i, name, gen) ==
    IF i = "app_classes"
    THEN [ board_id |-> NoId, name |-> DefaultBoardName(name), lists |-> <<>> ]
    ELSE Board(DefaultBoardName(name), NoId, gen)

\* workspace.__init__(name, pwd, last_edited, board_instance)
workspace(i, name, pwd, last_edited, board_instance, now, gen) ==
    [ name |-> name,
      pwd |-> pwd,
      last_edited |-> IF last_edited = None THEN now
                      ELSE IF IsIsoString(last_edited) THEN fromisoformat(last_edited)
                      ELSE now,
      board |-> IF board_instance = None THEN DefaultBoard(i, name, gen) ELSE board_instance ]

\* a check_pwd that lets any answer through
check_pwd_accepts_any_answer(ws, password_attempt) == TRUE
check_pwd(ws, password_attempt) ==
    IF ws.pwd = PNone THEN TRUE ELSE ws.pwd = password_attempt

update_last_edited(ws, now) == [ws EXCEPT !.last_edited = now]

\* the workspace after set_pwd, and what set_pwd returns
\* a set_pwd that does not ask for the current password
set_pwd_allowed_without_current(ws, old_password_attempt) == TRUE
set_pwd_allowed(ws, old_password_attempt) ==
    ws.pwd # PNone => (old_password_attempt # PNone /\ check_pwd(ws, old_password_attempt))

set_pwd(ws, new_password, old_password_attempt, now) ==
    IF set_pwd_allowed(ws, old_password_attempt)
    THEN update_last_edited(
             [ws EXCEPT !.pwd = IF Truthy(new_password) THEN new_password ELSE PNone], now)
    ELSE ws

\* a to_dict that writes str(self._pwd)
workspace_to_dict_stringifies_pwd(i, ws) ==
    [ name |-> ws.name,
      pwd |-> IF ws.pwd = PNone THEN "None" ELSE ws.pwd,
      last_edited |-> isoformat(ws.last_edited),
      board_data |-> Board_to_dict(i, ws.board) ]

workspace_to_dict(i, ws) ==
    [ name |-> ws.name,
      pwd |-> ws.pwd,
      last_edited |-> isoformat(ws.last_edited),
      board_data |-> Board_to_dict(i, ws.board) ]

workspace_from_dict(i, data, now, gen) ==
    workspace(i,
              Get(data, "name", << "Unnamed Workspace" >>),
              Get(data, "pwd", PNone),
              Get(data, "last_edited", None),
              IF "board_data" \in DOMAIN data
              THEN Board_from_dict(i, data.board_data, gen)
              ELSE None,
              now, gen)

\* the password prompt loop of open_workspace: how it ends
CancelSentinel(i) == IF i = "app_classes" THEN "CANCEL" ELSE PNone

RECURSIVE password_loop(_, _, _, _)
password_loop(ws, attempts, attempt_count, cancel) ==
    IF attempt_count >= MAX_PASSWORD_ATTEMPTS THEN "max_attempts"
    ELSE IF attempt_count >= Len(attempts) THEN "waiting_for_input"
    ELSE LET password_attempt == attempts[attempt_count + 1] IN
         IF password_attempt = cancel THEN "cancelled"
         ELSE IF check_pwd(ws, password_attempt) THEN "opened"
         ELSE password_loop(ws, attempts, attempt_count + 1, cancel)

\* the number of answers the prompt loop reads from the user
RECURSIVE prompts_read(_, _, _, _)
prompts_read(ws, attempts, attempt_count, cancel) ==
    IF attempt_count >= MAX_PASSWORD_ATTEMPTS \/ attempt_count >= Len(attempts)
    THEN attempt_count
    ELSE LET password_attempt == attempts[attempt_count + 1] IN
         IF password_attempt = cancel \/ check_pwd(ws, password_attempt)
         THEN attempt_count + 1
         ELSE prompts_read(ws, attempts, attempt_count + 1, cancel)
(***************************************************************************)
(* workspace_manager                                                       *)
(***************************************************************************)
Ret(op, arg, result, note) ==
    lastCall' = [ op |-> op, arg |-> arg, result |-> result, note |-> note ]

\* the next uuid4: never one handed out before
NewId == next_id + 1

\* _save_workspaces: json.dump(self.available_workspaces); an IOError is only notified
RegistryAfterSave(reg, fail) == IF fail THEN registry_file ELSE Json(reg)

\* the last-modified a registry entry caches: an entry is the path string alone
registry_entry_last_edited(entry) == None

\* workspace_manager.__init__ of a new process over the same disk
Restart ==
    /\ available_workspaces' = EmptyDict
    /\ current_workspace_object' = None
    /\ Ret("init", <<>>, "-", "-")
    /\ UNCHANGED << crypto, app, impl, registry_file, dirs, files, clock, next_id, saved, fresh >>

\* what load_workspaces reads from workspaces.json, before the clean-up
LoadedRegistry ==
    IF registry_file.kind = "json" /\ registry_file.isdict THEN registry_file.val ELSE EmptyDict

\* a load that takes any parsable content for a registry
FileWasProblematic_accepts_any_json ==
    registry_file.kind \in { "empty", "garbage" }

FileWasProblematic ==
    registry_file.kind \in { "empty", "garbage" }
        \/ (registry_file.kind = "json" /\ ~registry_file.isdict)

\* the clean-up of load_workspaces: entries whose path does not exist are deleted
CleanedRegistry(reg) == [n \in { m \in DOMAIN reg : reg[m] \in dirs } |-> reg[n]]

load_workspaces ==
    LET initial_file_exists == registry_file # NoFile
        loaded == LoadedRegistry
        cleaned == CleanedRegistry(loaded)
        workspaces_cleaned == DOMAIN cleaned # DOMAIN loaded
    IN  /\ available_workspaces' = cleaned
        /\ registry_file' =
               IF ~initial_file_exists \/ FileWasProblematic \/ workspaces_cleaned
               THEN RegistryAfterSave(cleaned, FALSE)
               ELSE registry_file
        /\ Ret("load_workspaces", <<>>, "-",
               IF FileWasProblematic THEN "starting_fresh"
               ELSE IF workspaces_cleaned THEN "entries_removed" ELSE "-")
        /\ UNCHANGED << crypto, app, impl, current_workspace_object, dirs, files, clock, next_id,
                        saved, fresh >>

\* a create_workspace without the os.path.exists(workspace_path) check
CreateCheck_ignores_existing_path(name_in, parent_path) ==
    LET name == strip(name_in) IN
    IF name_in = <<>> \/ name = <<>> THEN "empty_name"
    ELSE IF parent_path = "" \/ parent_path \notin ExistingParents THEN "bad_parent"
    ELSE IF name \in DOMAIN available_workspaces THEN "registered"
    ELSE "ok"

\* why create_workspace returns None before touching anything, or "ok"
CreateCheck(name_in, parent_path) ==
    LET name == strip(name_in) IN
    IF name_in = <<>> \/ name = <<>> THEN "empty_name"
    ELSE IF parent_path = "" \/ parent_path \notin ExistingParents THEN "bad_parent"
    ELSE IF name \in DOMAIN available_workspaces THEN "registered"
    ELSE IF join(parent_path, name) \in dirs THEN "exists"
    ELSE "ok"

create_workspace(name_in, parent_path, fault) ==
    LET name == strip(name_in)
        workspace_path == join(parent_path, name)
        check == CreateCheck(name_in, parent_path)
        new_ws_obj == workspace(impl, name, PNone, None, None, clock, NewId)
        data == Json(workspace_to_dict(impl, new_ws_obj))
    IN  /\ (check = "ok" /\ fault # "makedirs" /\ impl = "temp_classes") => next_id < MaxIds
        /\ check # "ok" => fault = "none"
        /\ IF check # "ok"
           THEN /\ Ret("create", name, "none", check)
                /\ UNCHANGED << available_workspaces, registry_file, dirs, files,
                                next_id, saved, fresh >>
           ELSE IF fault = "makedirs"
           THEN /\ Ret("create", name, "none", "oserror")
                /\ UNCHANGED << available_workspaces, registry_file, dirs, files,
                                next_id, saved, fresh >>
           ELSE IF fault = "write"
           THEN \* the except branch removes the file and the directory again
                /\ Ret("create", name, "none", "oserror")
                /\ next_id' = IF impl = "temp_classes" THEN NewId ELSE next_id
                /\ UNCHANGED << available_workspaces, registry_file, dirs, files,
                                saved, fresh >>
           ELSE IF fault = "write_remove_fails"
           THEN /\ Ret("create", name, "none", "oserror")
                /\ dirs' = dirs \cup { workspace_path }
                /\ files' = DictSet(files, workspace_path, Garbage)
                /\ next_id' = IF impl = "temp_classes" THEN NewId ELSE next_id
                /\ UNCHANGED << available_workspaces, registry_file, saved, fresh >>
           ELSE IF fault = "write_rmdir_fails"
           THEN /\ Ret("create", name, "none", "oserror")
                /\ dirs' = dirs \cup { workspace_path }
                /\ next_id' = IF impl = "temp_classes" THEN NewId ELSE next_id
                /\ UNCHANGED << available_workspaces, registry_file, files, saved, fresh >>
           ELSE /\ dirs' = dirs \cup { workspace_path }
                /\ files' = DictSet(files, workspace_path, data)
                /\ available_workspaces' = DictSet(available_workspaces, name, workspace_path)
                /\ registry_file' =
                       RegistryAfterSave(available_workspaces', fault = "registry")
                /\ next_id' = IF impl = "temp_classes" THEN NewId ELSE next_id
                /\ saved' = DictSet(saved, workspace_path, new_ws_obj)
                /\ fresh' = fresh \cup { workspace_path }
                /\ Ret("create", name, "ok", "created")
        /\ UNCHANGED << crypto, app, impl, current_workspace_object, clock >>
\* how open_workspace ends: "opened", or the reason it returns None
OpenOutcome(name_to_open, attempts, fault) ==
    IF name_to_open \notin DOMAIN available_workspaces THEN "not_found"
    ELSE LET workspace_path == available_workspaces[name_to_open] IN
         IF workspace_path \notin DOMAIN files THEN "no_data_file"
         ELSE IF fault = "ioerror" THEN "ioerror"
         ELSE IF ~ParsesAsPlaintext(files[workspace_path]) THEN "decode_error"
         ELSE LET ws_obj == workspace_from_dict(impl, files[workspace_path].val, clock, NewId)
              IN  IF Truthy(ws_obj.pwd)
                  THEN password_loop(ws_obj, attempts, 0, CancelSentinel(impl))
                  ELSE "opened"

\* the slot after open_workspace
\* an open that empties the slot when the data file cannot be decoded
SlotAfterOpen_closes_on_decode_error(name_to_open, outcome) ==
    IF outcome = "opened"
    THEN workspace_from_dict(impl, files[available_workspaces[name_to_open]].val, clock, NewId)
    ELSE IF outcome = "decode_error" THEN None
    ELSE current_workspace_object
SlotAfterOpen(name_to_open, outcome) ==
    IF outcome = "opened"
    THEN workspace_from_dict(impl, files[available_workspaces[name_to_open]].val, clock, NewId)
    ELSE current_workspace_object

\* the answers typed at the prompts of one call: none when it does not prompt
PromptsOf(name_to_open, attempts, fault) ==
    IF OpenOutcome(name_to_open, <<>>, fault) # "waiting_for_input" THEN 0
    ELSE prompts_read(workspace_from_dict(impl, files[available_workspaces[name_to_open]].val,
                                          clock, NewId),
                      attempts, 0, CancelSentinel(impl))

\* an open that answers an undecodable data file by starting the registry afresh
open_workspace_discards_registry(name_to_open, attempts, fault) ==
    LET outcome == OpenOutcome(name_to_open, attempts, fault) IN
    /\ outcome # "waiting_for_input"
    /\ PromptsOf(name_to_open, attempts, fault) = Len(attempts)
    /\ current_workspace_object' = SlotAfterOpen(name_to_open, outcome)
    /\ Ret("open", name_to_open, IF outcome = "opened" THEN "ok" ELSE "none", outcome)
    /\ available_workspaces' =
           IF outcome = "decode_error" THEN EmptyDict ELSE available_workspaces
    /\ registry_file' =
           IF outcome = "decode_error" THEN Json(EmptyDict) ELSE registry_file
    /\ UNCHANGED << crypto, app, impl, dirs, files, clock, next_id, saved, fresh >>

open_workspace(name_to_open, attempts, fault) ==
    LET outcome == OpenOutcome(name_to_open, attempts, fault) IN
    /\ outcome # "waiting_for_input"
    /\ PromptsOf(name_to_open, attempts, fault) = Len(attempts)
    /\ current_workspace_object' = SlotAfterOpen(name_to_open, outcome)
    /\ Ret("open", name_to_open, IF outcome = "opened" THEN "ok" ELSE "none", outcome)
    /\ UNCHANGED << crypto, app, impl, available_workspaces, registry_file, dirs, files, clock,
                    next_id, saved, fresh >>

\* the workspace object save_current_workspace works on: temp_classes.py stamps
\* last_edited before it looks the name up
StampedForSave(ws) ==
    IF impl = "temp_classes" THEN update_last_edited(ws, clock) ELSE ws

\* what save_current_workspace leaves in the data file
FileAfterSave(old, ws_obj, fault) ==
    IF fault = "none" THEN Json(workspace_to_dict(impl, ws_obj))
    ELSE IF fault = "dump" THEN Garbage
    ELSE old

save_current_workspace(fault) ==
    IF current_workspace_object = None
    THEN /\ Ret("save", <<>>, "false", "no_workspace")
         /\ UNCHANGED << crypto, app, impl, available_workspaces, current_workspace_object,
                         registry_file, dirs, files, clock, next_id, saved, fresh >>
    ELSE LET ws_obj == StampedForSave(current_workspace_object) IN
         /\ current_workspace_object' = ws_obj
         /\ IF ws_obj.name \notin DOMAIN available_workspaces
            THEN /\ Ret("save", ws_obj.name, "false", "not_in_list")
                 /\ UNCHANGED << dirs, files, saved, fresh >>
            ELSE LET workspace_path == available_workspaces[ws_obj.name] IN
                 /\ (fault = "open" => workspace_path \in DOMAIN files)
                 /\ dirs' = IF impl = "app_classes" THEN dirs \cup { workspace_path } ELSE dirs
                 /\ files' = IF fault = "open" THEN files
                             ELSE DictSet(files, workspace_path,
                                          FileAfterSave(NoFile, ws_obj, fault))
                 /\ saved' = IF fault = "none"
                             THEN DictSet(saved, workspace_path, ws_obj)
                             ELSE saved
                 /\ fresh' = IF fault = "open" THEN fresh ELSE fresh \ { workspace_path }
                 /\ Ret("save", ws_obj.name, IF fault = "none" THEN "true" ELSE "false",
                        IF fault = "none" THEN "saved" ELSE "ioerror")
         /\ UNCHANGED << crypto, app, impl, available_workspaces, registry_file, clock, next_id >>

\* a close that writes the open workspace back before releasing it
close_current_workspace_autosaves ==
    /\ current_workspace_object' = None
    /\ files' = IF current_workspace_object # None
                    /\ current_workspace_object.name \in DOMAIN available_workspaces
                 THEN DictSet(files, available_workspaces[current_workspace_object.name],
                              Json(workspace_to_dict(impl, current_workspace_object)))
                 ELSE files
    /\ Ret("close", <<>>, "-",
           IF current_workspace_object = None THEN "nothing_open" ELSE "closed")
    /\ UNCHANGED << crypto, app, impl, available_workspaces, registry_file, dirs, clock,
                    next_id, saved, fresh >>

close_current_workspace ==
    /\ current_workspace_object' = None
    /\ Ret("close", <<>>, "-",
           IF current_workspace_object = None THEN "nothing_open" ELSE "closed")
    /\ UNCHANGED << crypto, app, impl, available_workspaces, registry_file, dirs, files, clock,
                    next_id, saved, fresh >>

(***************************************************************************)
(* delete_workspace and rename_workspace.  main.py calls them; the manager *)
(* iterations among the sources do not have them yet.  They are modelled   *)
(* from their description, over the open, save and close above.           *)
(***************************************************************************)
\* a delete that does not refuse the open workspace
delete_workspace_deletes_open(name) ==
    IF name \notin DOMAIN available_workspaces
    THEN /\ Ret("delete", name, "false", "not_found")
         /\ UNCHANGED << crypto, app, impl, available_workspaces, current_workspace_object,
                         registry_file, dirs, files, clock, next_id, saved, fresh >>
    ELSE LET workspace_path == available_workspaces[name] IN
         /\ dirs' = dirs \ { workspace_path }
         /\ files' = DictDel(files, workspace_path)
         /\ available_workspaces' = DictDel(available_workspaces, name)
         /\ registry_file' = RegistryAfterSave(available_workspaces', FALSE)
         /\ saved' = DictDel(saved, workspace_path)
         /\ fresh' = fresh \ { workspace_path }
         /\ Ret("delete", name, "true", "deleted")
         /\ UNCHANGED << crypto, app, impl, current_workspace_object, clock, next_id >>

delete_workspace(name) ==
    IF name \notin DOMAIN available_workspaces
    THEN /\ Ret("delete", name, "false", "not_found")
         /\ UNCHANGED << crypto, app, impl, available_workspaces, current_workspace_object,
                         registry_file, dirs, files, clock, next_id, saved, fresh >>
    ELSE IF current_workspace_object # None /\ current_workspace_object.name = name
    THEN /\ Ret("delete", name, "false", "is_open")
         /\ UNCHANGED << crypto, app, impl, available_workspaces, current_workspace_object,
                         registry_file, dirs, files, clock, next_id, saved, fresh >>
    ELSE LET workspace_path == available_workspaces[name] IN
         /\ dirs' = dirs \ { workspace_path }
         /\ files' = DictDel(files, workspace_path)
         /\ available_workspaces' = DictDel(available_workspaces, name)
         /\ registry_file' = RegistryAfterSave(available_workspaces', FALSE)
         /\ saved' = DictDel(saved, workspace_path)
         /\ fresh' = fresh \ { workspace_path }
         /\ Ret("delete", name, "true", "deleted")
         /\ UNCHANGED << crypto, app, impl, current_workspace_object, clock, next_id >>

\* the steps of rename_workspace, in the order they are described
RenameSteps == << "open", "mutate_name", "save", "close", "rename_directory",
                 "update_registry_key" >>

\* why rename_workspace does not start, or "ok"
RenameCheck(old_name, new_name) ==
    IF old_name \notin DOMAIN available_workspaces THEN "not_found"
    ELSE IF new_name = <<>> THEN "empty_name"
    ELSE IF new_name \in DOMAIN available_workspaces THEN "registered"
    ELSE "ok"

\* the save step is save_current_workspace: it finds the path under the name the
\* workspace object now has
RenameSaveOk(renamed) == renamed.name \in DOMAIN available_workspaces

\* checks_save: whether rename_workspace gives up when its save step returns False
rename_workspace(old_name, new_name, checks_save) ==
    LET check == RenameCheck(old_name, new_name)
        outcome == OpenOutcome(old_name, <<>>, "none")
        Done(result, note, done) ==
            lastCall' = [ op |-> "rename", arg |-> old_name, result |-> result,
                          note |-> note, steps |-> SubSeq(RenameSteps, 1, done) ]
    IN
    /\ check = "ok" => outcome # "waiting_for_input"
    /\ IF check # "ok"
       THEN /\ Done("false", check, 0)
            /\ UNCHANGED << available_workspaces, current_workspace_object, registry_file,
                            dirs, files, saved, fresh >>
       ELSE IF outcome # "opened"
       THEN /\ Done("false", outcome, 1)
            /\ UNCHANGED << available_workspaces, current_workspace_object, registry_file,
                            dirs, files, saved, fresh >>
       ELSE LET old_path == available_workspaces[old_name]
                new_path == join(old_path[1], new_name)
                ws_obj == SlotAfterOpen(old_name, outcome)
                renamed == [ws_obj EXCEPT !.name = new_name]
                save_ok == RenameSaveOk(renamed)
                files_saved ==
                    IF save_ok
                    THEN DictSet(files, available_workspaces[renamed.name],
                                 FileAfterSave(NoFile, renamed, "none"))
                    ELSE files
            IN  /\ current_workspace_object' = None
                /\ IF ~save_ok /\ checks_save
                   THEN /\ Done("false", "save_failed", 4)
                        /\ UNCHANGED << available_workspaces, registry_file, dirs, files,
                                        saved, fresh >>
                   ELSE IF new_path \in dirs
                   THEN /\ Done("false", "rename_failed", 5)
                        /\ files' = files_saved
                        /\ UNCHANGED << available_workspaces, registry_file, dirs,
                                        saved, fresh >>
                   ELSE /\ Done("true", "renamed", 6)
                        /\ dirs' = (dirs \ { old_path }) \cup { new_path }
                        /\ files' = DictSet(DictDel(files_saved, old_path), new_path,
                                            files_saved[old_path])
                        /\ available_workspaces' =
                               DictSet(DictDel(available_workspaces, old_name),
                                       new_name, new_path)
                        /\ registry_file' = RegistryAfterSave(available_workspaces', FALSE)
                        /\ saved' = DictDel(saved, old_path)
                        /\ fresh' = fresh \ { old_path }
    /\ UNCHANGED << crypto, app, impl, clock, next_id >>

(***************************************************************************)
(* What happens to the disk behind the manager's back                      *)
(***************************************************************************)
\* what an editor or a crash can leave in workspaces.json
BrokenRegistryFiles ==
    { [kind |-> "empty"], Garbage, [kind |-> "json", isdict |-> FALSE, val |-> <<>>] }

env_remove_data_file(path) ==
    /\ path \in DOMAIN files
    /\ files' = DictDel(files, path)
    /\ fresh' = fresh \ { path }
    /\ Ret("env", path, "-", "data_file_removed")
    /\ UNCHANGED << crypto, app, impl, available_workspaces, current_workspace_object,
                    registry_file, dirs, clock, next_id, saved >>

env_remove_directory(path) ==
    /\ path \in dirs
    /\ dirs' = dirs \ { path }
    /\ files' = DictDel(files, path)
    /\ fresh' = fresh \ { path }
    /\ Ret("env", path, "-", "directory_removed")
    /\ UNCHANGED << crypto, app, impl, available_workspaces, current_workspace_object,
                    registry_file, clock, next_id, saved >>

env_corrupt_data_file(path) ==
    /\ path \in DOMAIN files
    /\ files[path] # Garbage
    /\ files' = DictSet(files, path, Garbage)
    /\ fresh' = fresh \ { path }
    /\ Ret("env", path, "-", "data_file_corrupted")
    /\ UNCHANGED << crypto, app, impl, available_workspaces, current_workspace_object,
                    registry_file, dirs, clock, next_id, saved >>

env_overwrite_registry(content) ==
    /\ registry_file # NoFile
    /\ registry_file # content
    /\ registry_file' = content
    /\ Ret("env", <<>>, "-", "registry_overwritten")
    /\ UNCHANGED << crypto, app, impl, available_workspaces, current_workspace_object,
                    dirs, files, clock, next_id, saved, fresh >>

(***************************************************************************)
(* Operations on the open workspace object                                 *)
(***************************************************************************)
Mutate(ws) ==
    /\ current_workspace_object' = ws
    /\ UNCHANGED << crypto, app, impl, available_workspaces, registry_file, dirs, files, clock,
                    saved, fresh >>

ws_set_pwd(new_password, old_password_attempt) ==
    /\ current_workspace_object # None
    /\ Mutate(set_pwd(current_workspace_object, new_password, old_password_attempt, clock))
    /\ Ret("set_pwd", <<>>,
           IF set_pwd_allowed(current_workspace_object, old_password_attempt)
           THEN "true" ELSE "false", "-")
    /\ UNCHANGED next_id

ws_update_last_edited ==
    /\ current_workspace_object # None
    /\ Mutate(update_last_edited(current_workspace_object, clock))
    /\ Ret("update_last_edited", <<>>, "-", "-")
    /\ UNCHANGED next_id

HasLists == impl = "temp_classes" /\ current_workspace_object # None

board_create_list(list_name) ==
    /\ HasLists
    /\ next_id < MaxIds
    /\ Mutate([current_workspace_object EXCEPT
                  !.board = Board_create_list(@, list_name, "None", NewId)])
    /\ next_id' = NewId
    /\ Ret("create_list", <<>>, "list", "-")        \* returns new_list, always

board_remove_list(k) ==
    /\ HasLists
    /\ k \in 1..Len(current_workspace_object.board.lists)
    /\ Mutate([current_workspace_object EXCEPT
                  !.board = Board_remove_list(@, @.lists[k].list_id)])
    /\ Ret("remove_list", <<>>, "-", "-")
    /\ UNCHANGED next_id

list_create_card(k, name) ==
    /\ HasLists
    /\ k \in 1..Len(current_workspace_object.board.lists)
    /\ next_id < MaxIds
    /\ Mutate([current_workspace_object EXCEPT
                  !.board.lists[k] = List_create_card(@, name, "None", NewId)])
    /\ next_id' = NewId
    /\ Ret("create_card", <<>>, "-", "-")

list_remove_card(k, j) ==
    /\ HasLists
    /\ k \in 1..Len(current_workspace_object.board.lists)
    /\ j \in 1..Len(current_workspace_object.board.lists[k].cards)
    /\ Mutate([current_workspace_object EXCEPT
                  !.board.lists[k] = List_remove_card(@, @.cards[j].card_id)])
    /\ Ret("remove_card", <<>>, "-", "-")
    /\ UNCHANGED next_id

list_change_name(k, new_name) ==
    /\ HasLists
    /\ k \in 1..Len(current_workspace_object.board.lists)
    /\ Mutate([current_workspace_object EXCEPT
                  !.board.lists[k] = List_change_name(@, new_name)])
    /\ Ret("change_name", <<>>, "-", "-")
    /\ UNCHANGED next_id

\* time passes
Tick ==
    /\ clock < MaxTime
    /\ clock' = clock + 1
    /\ UNCHANGED << crypto, app, impl, available_workspaces, current_workspace_object, registry_file,
                    dirs, files, next_id, lastCall, saved, fresh >>

(***************************************************************************)
(* Encryption Helper.  Its code is not among the sources (config.py keeps  *)
(* its constants); it is modelled from its description: a key derived from *)
(* password and salt, an authenticated cipher, a blob salt || ciphertext.  *)
(***************************************************************************)
SaltBytes == { 0, 1 }
Salts == { [i \in 1..SALT_LENGTH |-> b] : b \in SaltBytes }
Texts == UNION { [ 1..n -> { "x", "y" } ] : n \in 0..MaxText }
Passwords == { "p", "q", "pq" }

NoCall == [ op |-> "none" ]
NoApp == [ screen |-> "none" ]
AuthenticationFailed == [ error |-> "authentication failed" ]
MalformedInput == [ error |-> "malformed input" ]

\* same password and salt, same key; another password or salt, another key
derive_key(password, salt) == [ password |-> password, salt |-> salt ]

\* the authenticated cipher: a token only its key opens
seal(key, plaintext) == << [ key |-> key, plaintext |-> plaintext ] >>

unseal(key, ciphertext) ==
    IF Len(ciphertext) = 1 /\ ciphertext[1].key = key
    THEN [ ok |-> ciphertext[1].plaintext ]
    ELSE AuthenticationFailed

\* salt is the fresh random salt of this call
encrypt(plaintext, password, salt) == salt \o seal(derive_key(password, salt), plaintext)

\* a decryption that does not authenticate
decrypt_unauthenticated(blob, password) ==
    IF Len(blob) < SALT_LENGTH THEN MalformedInput
    ELSE [ ok |-> blob[SALT_LENGTH + 1].plaintext ]

decrypt(blob, password) ==
    IF Len(blob) < SALT_LENGTH THEN MalformedInput
    ELSE LET salt == SubSeq(blob, 1, SALT_LENGTH)
             ciphertext == SubSeq(blob, SALT_LENGTH + 1, Len(blob))
         IN  unseal(derive_key(password, salt), ciphertext)

managerVars == << impl, available_workspaces, current_workspace_object, registry_file,
                  dirs, files, clock, next_id, lastCall, saved, fresh, app >>

Encrypt(plaintext, password, salt) ==
    /\ crypto' = [ op |-> "encrypt", plaintext |-> plaintext, password |-> password,
                   blob |-> encrypt(plaintext, password, salt),
                   attempt |-> PNone, result |-> NoCall ]
    /\ UNCHANGED managerVars

Decrypt(password) ==
    /\ crypto.op # "none"
    /\ crypto' = [ crypto EXCEPT !.op = "decrypt", !.attempt = password,
                                 !.result = decrypt(crypto.blob, password) ]
    /\ UNCHANGED managerVars

(***************************************************************************)
(* The board screen of main.py.  app.board is the selected Board of the    *)
(* open workspace and app.disk the Board that the latest                   *)
(* save_current_workspace() of a callback wrote.  The callbacks are        *)
(* main.py's; Bin is class_bin.py's, List.add_card and Board.add_list are  *)
(* temp_classes.py's; the Board and Bin methods that main.py calls and no  *)
(* source file has are modelled from their description.                    *)
(***************************************************************************)
BoardListNames == { "A", "B" }
BoardCardNames == { "X" }

lower(s) == IF s = "A" THEN "a" ELSE IF s = "B" THEN "b" ELSE s

NewCard(name, gen) == [ card_id |-> gen, name |-> name ]
NewList(name, gen) == [ list_id |-> gen, name |-> name, cards |-> <<>> ]
EmptyBin == [ archived_lists |-> <<>>, archived_cards |-> <<>> ]
NewBoard == [ lists |-> <<>>, bin |-> EmptyBin, completed_list_name |-> PNone ]

\* list.insert(index, x) and list.remove(x) of Python
Insert(seq, index, x) ==
    LET i == IF index > Len(seq) THEN Len(seq) ELSE index
    IN  SubSeq(seq, 1, i) \o << x >> \o SubSeq(seq, i + 1, Len(seq))
RemoveAt(seq, i) == SubSeq(seq, 1, i - 1) \o SubSeq(seq, i + 1, Len(seq))

\* next(l for l in board.list_objects() if l.name == name): its position, 0 for None
FirstNamed(lists, name) ==
    IF \E i \in DOMAIN lists : lists[i].name = name
    THEN CHOOSE i \in DOMAIN lists :
             lists[i].name = name /\ \A j \in 1..(i - 1) : lists[j].name # name
    ELSE 0

\* Board._find_list_by_name: names are compared ignoring case
find_list_by_name(b, name) ==
    IF \E i \in DOMAIN b.lists : lower(b.lists[i].name) = lower(name)
    THEN CHOOSE i \in DOMAIN b.lists :
             /\ lower(b.lists[i].name) = lower(name)
             /\ \A j \in 1..(i - 1) : lower(b.lists[j].name) # lower(name)
    ELSE 0

\* Bin (class_bin.py); an archived card is kept with the name of its list
\* a move_list_to_bin that appends without looking at the identities
move_list_to_bin_always_appends(bin, list_object) ==
    [bin EXCEPT !.archived_lists = Append(@, list_object)]
move_list_to_bin(bin, list_object) ==
    IF \A i \in DOMAIN bin.archived_lists :
           bin.archived_lists[i].list_id # list_object.list_id
    THEN [bin EXCEPT !.archived_lists = Append(@, list_object)]
    ELSE bin

FirstArchivedList(bin, item_name) == FirstNamed(bin.archived_lists, item_name)

\* a restore_list that hands the List out and keeps it archived
restore_list_keeps_archived(bin, item_name) == bin
restore_list(bin, item_name) ==
    LET i == FirstArchivedList(bin, item_name) IN
    IF i = 0 THEN bin ELSE [bin EXCEPT !.archived_lists = RemoveAt(@, i)]

move_card_to_bin(bin, card_object, source_list) ==
    IF \A i \in DOMAIN bin.archived_cards :
           bin.archived_cards[i].card.card_id # card_object.card_id
    THEN [bin EXCEPT !.archived_cards =
                 Append(@, [ source_list |-> source_list, card |-> card_object ])]
    ELSE bin

\* Bin._find_card_by_name: the position of the first entry of that name, 0 for None
find_card_by_name(bin, item_name) ==
    IF \E i \in DOMAIN bin.archived_cards : bin.archived_cards[i].card.name = item_name
    THEN CHOOSE i \in DOMAIN bin.archived_cards :
             /\ bin.archived_cards[i].card.name = item_name
             /\ \A j \in 1..(i - 1) : bin.archived_cards[j].card.name # item_name
    ELSE 0

permanently_delete_card(bin, item_name) ==
    [bin EXCEPT !.archived_cards = SelectSeq(@, LAMBDA e : e.card.name # item_name)]

\* Board.create_list: None when a List of that name exists
create_list_refused(b, name) == find_list_by_name(b, name) # 0
create_list(b, name, gen) ==
    IF create_list_refused(b, name) THEN b ELSE Board_add_list(b, NewList(name, gen))

\* Board.set_completed_list(name | None): validated against the current Lists
set_completed_list(b, name) ==
    IF name = PNone THEN [b EXCEPT !.completed_list_name = PNone]
    ELSE IF find_list_by_name(b, name) # 0 THEN [b EXCEPT !.completed_list_name = name]
    ELSE b

\* Board.delete_list(name): the List goes to the Bin, the designation is cleared
\* if it pointed at it
delete_list(b, name) ==
    LET i == find_list_by_name(b, name) IN
    IF i = 0 THEN b
    ELSE [b EXCEPT !.bin = move_list_to_bin(@, b.lists[i]),
                   !.lists = RemoveAt(@, i),
                   !.completed_list_name =
                       IF @ = b.lists[i].name THEN PNone ELSE @]

\* Board.delete_card(list_name, card): archive tagged with list_name, then remove
delete_card(b, list_name, card_object) ==
    LET i == find_list_by_name(b, list_name) IN
    IF i = 0 \/ \A j \in DOMAIN b.lists[i].cards : b.lists[i].cards[j] # card_object
    THEN b
    ELSE [b EXCEPT !.bin = move_card_to_bin(@, card_object, list_name),
                   !.lists[i].cards = SelectSeq(@, LAMBDA c : c # card_object)]

\* the cards a ListWidget shows: populate_cards looks its List up by name
ShownCards(b, k) == b.lists[FirstNamed(b.lists, b.lists[k].name)].cards

OnBoardScreen == app # NoApp
Widgets == IF OnBoardScreen THEN DOMAIN app.board.lists ELSE {}

\* the callback changed the Board and called save_current_workspace()
Saved(b) == app' = [app EXCEPT !.board = b, !.disk = b]
\* the callback changed the Board, or nothing, and did not save
NotSaved(b) == app' = [app EXCEPT !.board = b]

boardFrame == << crypto, impl, available_workspaces, current_workspace_object,
                registry_file, dirs, files, clock, saved, fresh >>

\* BoardScreen.load_current_board of a workspace whose Board is new
load_current_board ==
    /\ ~OnBoardScreen
    /\ app' = [ screen |-> "board", board |-> NewBoard, disk |-> NewBoard ]
    /\ Ret("load_current_board", <<>>, "-", "-")
    /\ UNCHANGED << boardFrame, next_id >>

add_new_list_callback(list_name) ==
    /\ OnBoardScreen
    /\ IF list_name # "" /\ ~create_list_refused(app.board, list_name)
       THEN /\ next_id < MaxIds
            /\ next_id' = NewId
            /\ Saved(create_list(app.board, list_name, NewId))
            /\ Ret("add_new_list", <<>>, "list", "created")
       ELSE /\ UNCHANGED << app, next_id >>
            /\ Ret("add_new_list", <<>>, "none",
                   IF list_name # "" THEN "already_exists" ELSE "-")
    /\ UNCHANGED boardFrame

add_card_callback(k, name) ==
    /\ k \in Widgets
    /\ next_id < MaxIds
    /\ next_id' = NewId
    /\ LET i == FirstNamed(app.board.lists, app.board.lists[k].name) IN
       Saved([app.board EXCEPT !.lists[i] = List_add_card(@, NewCard(name, NewId))])
    /\ Ret("add_card", <<>>, "-", "added")
    /\ UNCHANGED boardFrame

delete_card_confirmed(k, j) ==
    /\ k \in Widgets
    /\ j \in DOMAIN ShownCards(app.board, k)
    /\ LET b == delete_card(app.board, app.board.lists[k].name, ShownCards(app.board, k)[j])
       IN  IF b # app.board
           THEN Saved(b) /\ Ret("delete_card", <<>>, "true", "moved_to_bin")
           ELSE UNCHANGED app /\ Ret("delete_card", <<>>, "false", "error")
    /\ UNCHANGED << boardFrame, next_id >>

move_to_bin(k) ==
    /\ k \in Widgets
    /\ LET b == delete_list(app.board, app.board.lists[k].name) IN
       IF b # app.board
       THEN Saved(b) /\ Ret("move_to_bin", <<>>, "true", "moved_to_bin")
       ELSE UNCHANGED app /\ Ret("move_to_bin", <<>>, "false", "-")
    /\ UNCHANGED << boardFrame, next_id >>

\* a rename that leaves the completed-list designation alone
rename_callback_forgets_completed(k, new_name) ==
    /\ k \in Widgets
    /\ LET b == app.board
           list_name == b.lists[k].name
           i == FirstNamed(b.lists, list_name)
       IN  IF new_name = ""
           THEN UNCHANGED app /\ Ret("rename_list", <<>>, "-", "empty_name")
           ELSE IF new_name # list_name /\ find_list_by_name(b, new_name) # 0
           THEN UNCHANGED app /\ Ret("rename_list", <<>>, "-", "already_exists")
           ELSE /\ Saved([b EXCEPT !.lists[i].name = new_name])
                /\ Ret("rename_list", <<>>,
                       IF b.completed_list_name = list_name
                       THEN "completed_list_renamed" ELSE "-", "renamed")
    /\ UNCHANGED << boardFrame, next_id >>

rename_callback(k, new_name) ==
    /\ k \in Widgets
    /\ LET b == app.board
           list_name == b.lists[k].name
           i == FirstNamed(b.lists, list_name)
           renamed == [b EXCEPT !.lists[i].name = new_name]
       IN  IF new_name = ""
           THEN UNCHANGED app /\ Ret("rename_list", <<>>, "-", "empty_name")
           ELSE IF new_name # list_name /\ find_list_by_name(b, new_name) # 0
           THEN UNCHANGED app /\ Ret("rename_list", <<>>, "-", "already_exists")
           ELSE /\ Saved(IF b.completed_list_name = list_name
                         THEN set_completed_list(renamed, new_name)
                         ELSE renamed)
                /\ Ret("rename_list", <<>>,
                       IF b.completed_list_name = list_name
                       THEN "completed_list_renamed" ELSE "-", "renamed")
    /\ UNCHANGED << boardFrame, next_id >>

set_as_completed(k) ==
    /\ k \in Widgets
    /\ LET list_name == app.board.lists[k].name IN
       IF app.board.completed_list_name = list_name
       THEN /\ Saved(set_completed_list(app.board, PNone))
            /\ Ret("set_as_completed", <<>>, "-", "unset")
       ELSE /\ Saved(set_completed_list(app.board, list_name))
            /\ Ret("set_as_completed", <<>>, "-", "set")
    /\ UNCHANGED << boardFrame, next_id >>

\* a direct call of Board.set_completed_list, without save
board_set_completed_list(name) ==
    /\ OnBoardScreen
    /\ NotSaved(set_completed_list(app.board, name))
    /\ Ret("set_completed_list", <<>>,
           IF name = PNone \/ find_list_by_name(app.board, name) # 0
           THEN "true" ELSE "false", "-")
    /\ UNCHANGED << boardFrame, next_id >>

\* a restore that puts a card whose list is gone into the first live List
restore_item_into_any_list(item_name, item_type) ==
    /\ OnBoardScreen
    /\ LET b == app.board IN
       IF item_type = "list"
       THEN LET i == FirstArchivedList(b.bin, item_name) IN
            IF i # 0
            THEN /\ Saved(Board_add_list([b EXCEPT !.bin = restore_list(@, item_name)],
                                   b.bin.archived_lists[i]))
                 /\ Ret("restore_item", <<>>, "list", "restored")
            ELSE /\ Saved(b)
                 /\ Ret("restore_item", <<>>, "list", "not_in_bin")
       ELSE LET e == find_card_by_name(b.bin, item_name) IN
            IF e = 0
            THEN /\ UNCHANGED app
                 /\ Ret("restore_item", <<>>, "card", "not_in_bin")
            ELSE LET card_entry == b.bin.archived_cards[e]
                     source == find_list_by_name(b, card_entry.source_list)
                     purged == [b EXCEPT !.bin = permanently_delete_card(@, item_name)]
                 IN  IF source # 0
                     THEN /\ Saved([purged EXCEPT
                                       !.lists[source] = List_add_card(@, card_entry.card)])
                          /\ Ret("restore_item", <<>>, "card", "restored")
                     ELSE /\ Saved(IF b.lists # <<>>
                                   THEN [purged EXCEPT
                                            !.lists[1] = List_add_card(@, card_entry.card)]
                                   ELSE purged)
                          /\ Ret("restore_item", <<>>, "card", "list_not_found")
    /\ UNCHANGED << boardFrame, next_id >>

restore_item(item_name, item_type) ==
    /\ OnBoardScreen
    /\ LET b == app.board IN
       IF item_type = "list"
       THEN LET i == FirstArchivedList(b.bin, item_name) IN
            IF i # 0
            THEN /\ Saved(Board_add_list([b EXCEPT !.bin = restore_list(@, item_name)],
                                   b.bin.archived_lists[i]))
                 /\ Ret("restore_item", <<>>, "list", "restored")
            ELSE /\ Saved(b)
                 /\ Ret("restore_item", <<>>, "list", "not_in_bin")
       ELSE LET e == find_card_by_name(b.bin, item_name) IN
            IF e = 0
            THEN /\ UNCHANGED app
                 /\ Ret("restore_item", <<>>, "card", "not_in_bin")
            ELSE LET card_entry == b.bin.archived_cards[e]
                     source == find_list_by_name(b, card_entry.source_list)
                     purged == [b EXCEPT !.bin = permanently_delete_card(@, item_name)]
                 IN  IF source # 0
                     THEN /\ Saved([purged EXCEPT
                                       !.lists[source] = List_add_card(@, card_entry.card)])
                          /\ Ret("restore_item", <<>>, "card", "restored")
                     ELSE /\ Saved(purged)
                          /\ Ret("restore_item", <<>>, "card", "list_not_found")
    /\ UNCHANGED << boardFrame, next_id >>

\* a drop that inserts the card and leaves it in its source List as well
perform_drop_copies(ks, j, kt, index) ==
    /\ ks \in Widgets
    /\ kt \in Widgets
    /\ LET b == app.board
           src == FirstNamed(b.lists, b.lists[ks].name)
           tgt == FirstNamed(b.lists, b.lists[kt].name)
       IN  /\ j \in DOMAIN b.lists[src].cards
           /\ index \in 0..Len(b.lists[tgt].cards)
           /\ IF ks = kt /\ index = Len(b.lists[src].cards) - j
              THEN /\ UNCHANGED app
                   /\ Ret("drop", <<>>, "-", "same_position")
              ELSE /\ Saved([b EXCEPT !.lists[tgt].cards = Insert(@, index, b.lists[src].cards[j])])
                   /\ Ret("drop", << b.lists[ks].name, b.lists[kt].name >>, "-", "moved")
    /\ UNCHANGED << boardFrame, next_id >>

\* DragDropManager._perform_drop: the card shown at place j of widget ks is
\* dropped at index of widget kt
perform_drop(ks, j, kt, index) ==
    /\ ks \in Widgets
    /\ kt \in Widgets
    /\ LET b == app.board
           src == FirstNamed(b.lists, b.lists[ks].name)
           tgt == FirstNamed(b.lists, b.lists[kt].name)
       IN  /\ j \in DOMAIN b.lists[src].cards
           /\ index \in 0..Len(b.lists[tgt].cards)
           /\ IF ks = kt /\ index = Len(b.lists[src].cards) - j
              THEN /\ UNCHANGED app
                   /\ Ret("drop", <<>>, "-", "same_position")
              ELSE LET dragged_card == b.lists[src].cards[j]
                       original_data_index == j - 1
                       removed == [b EXCEPT !.lists[src].cards = RemoveAt(@, j)]
                       target_index ==
                           IF src = tgt /\ original_data_index < index
                           THEN index - 1 ELSE index
                   IN  /\ Saved([removed EXCEPT
                                    !.lists[tgt].cards = Insert(@, target_index, dragged_card)])
                       /\ Ret("drop", << b.lists[ks].name, b.lists[kt].name >>, "-", "moved")
    /\ UNCHANGED << boardFrame, next_id >>

(***************************************************************************)
(* The Boards of the open workspace (board navigation of main.py)          *)
(*                                                                         *)
(* A Board is its identity here; app holds the open workspace's _boards    *)
(* and _selected_board_index, and the form last written to its data file.  *)
(***************************************************************************)
NUM_BOARDS_PER_WORKSPACE == MaxIds     \* 100 in benchmark.py, scaled to the bound
BoardIds == 1..MaxIds
SeqRange(seq) == { seq[i] : i \in DOMAIN seq }
FreshBoardIds(ws) == BoardIds \ SeqRange(ws._boards)

\* a new Workspace holds one default Board, selected
NewWorkspace(gen) == [_boards |-> << gen >>, _selected_board_index |-> 0]
create_board(ws, gen) == [ws EXCEPT !._boards = Append(@, gen)]
set_selected_board_by_index(ws, index) ==
    IF index >= 0 /\ index < Len(ws._boards)
    THEN [ws EXCEPT !._selected_board_index = index]
    ELSE ws
selected_board(ws) ==
    IF ws._selected_board_index + 1 \in DOMAIN ws._boards
    THEN ws._boards[ws._selected_board_index + 1]
    ELSE NoId
Workspace_to_dict(ws) ==
    [boards |-> ws._boards, selected_board_index |-> ws._selected_board_index]
Workspace_from_dict(data, gen) ==
    LET boards == IF data.boards = << >> THEN << gen >> ELSE data.boards
        index == data.selected_board_index
    IN  [_boards |-> boards,
         _selected_board_index |->
             IF index < 0 THEN 0
             ELSE IF index >= Len(boards) THEN Len(boards) - 1 ELSE index]

\* what a data file may hold: any number of Boards, any index
StoredBoards == { [i \in 1..n |-> i] : n \in 0..MaxIds }
StoredForms ==
    { [boards |-> s, selected_board_index |-> i] : s \in StoredBoards, i \in -1..MaxIds }

WorkspaceOpen == app # NoApp /\ app.screen = "boards" /\ app.open
WorkspaceClosed == app # NoApp /\ app.screen = "boards" /\ ~app.open
BoardsSaved(ws) == app' = [app EXCEPT !.ws = ws, !.disk = Workspace_to_dict(ws)]
boardsFrame == << crypto, impl, available_workspaces, current_workspace_object,
                  registry_file, dirs, files, clock, saved, fresh, next_id >>

\* load_current_board: a workspace without a selected Board gets a new one
WithSelectedBoard(ws, gen) ==
    IF selected_board(ws) = NoId
    THEN set_selected_board_by_index(create_board(ws, gen), 0)
    ELSE ws

create_default_workspace(gen) ==
    /\ app = NoApp
    /\ app' = [screen |-> "boards", open |-> FALSE, ws |-> NewWorkspace(gen),
               disk |-> Workspace_to_dict(NewWorkspace(gen))]
    /\ Ret("create_workspace", << >>, "ok", "-")
    /\ UNCHANGED boardsFrame

open_boards(gen) ==
    /\ WorkspaceClosed
    /\ LET loaded == Workspace_from_dict(app.disk, gen)
           shown == WithSelectedBoard(loaded, gen)
       IN  /\ app' = [app EXCEPT !.open = TRUE, !.ws = shown,
                                 !.disk = IF shown = loaded THEN @ ELSE Workspace_to_dict(shown)]
           /\ Ret("open_workspace", << >>, "ok", "-")
    /\ UNCHANGED boardsFrame

close_boards ==
    /\ WorkspaceOpen
    /\ app' = [app EXCEPT !.open = FALSE]
    /\ Ret("close_workspace", << >>, "-", "-")
    /\ UNCHANGED boardsFrame

env_edit_data_file(data) ==
    /\ WorkspaceClosed
    /\ app' = [app EXCEPT !.disk = data]
    /\ Ret("env", << >>, "-", "data_file_edited")
    /\ UNCHANGED boardsFrame

create_new_board_and_load_it(gen) ==
    /\ WorkspaceOpen
    /\ gen \in FreshBoardIds(app.ws)
    /\ LET created == create_board(app.ws, gen)
           selected == set_selected_board_by_index(created, Len(created._boards) - 1)
       IN  BoardsSaved(WithSelectedBoard(selected, gen))
    /\ Ret("create_board", << >>, "-", "created")
    /\ UNCHANGED boardsFrame

load_next_board ==
    /\ WorkspaceOpen
    /\ LET current_index == app.ws._selected_board_index
       IN  IF current_index < Len(app.ws._boards) - 1
           THEN /\ app' = [app EXCEPT !.ws = set_selected_board_by_index(@, current_index + 1)]
                /\ Ret("load_next_board", << >>, "-", "selected")
           ELSE /\ UNCHANGED app
                /\ Ret("load_next_board", << >>, "-", "create_board_dialog")
    /\ UNCHANGED boardsFrame

load_previous_board ==
    /\ WorkspaceOpen
    /\ IF app.ws._selected_board_index > 0
       THEN /\ app' = [app EXCEPT !.ws = set_selected_board_by_index(@, @._selected_board_index - 1)]
            /\ Ret("load_previous_board", << >>, "-", "selected")
       ELSE /\ UNCHANGED app
            /\ Ret("load_previous_board", << >>, "-", "-")
    /\ UNCHANGED boardsFrame

BoardsAfterDelete(ws) ==
    LET current_board == selected_board(ws)
        k == CHOOSE i \in DOMAIN ws._boards : ws._boards[i] = current_board
        removed == IF current_board # NoId
                   THEN [ws EXCEPT !._boards = RemoveAt(@, k)]
                   ELSE ws
    IN  IF removed._selected_board_index >= Len(removed._boards)
        THEN [removed EXCEPT !._selected_board_index = Len(removed._boards) - 1]
        ELSE removed

delete_board_removes_last(gen) ==
    /\ WorkspaceOpen
    /\ gen \in BoardIds
    /\ BoardsSaved(WithSelectedBoard(BoardsAfterDelete(app.ws), gen))
    /\ Ret("delete_board", << >>, "-", "deleted")
    /\ UNCHANGED boardsFrame

delete_board(gen) ==
    /\ WorkspaceOpen
    /\ gen \in BoardIds
    /\ IF Len(app.ws._boards) <= 1
       THEN /\ UNCHANGED app
            /\ Ret("delete_board", << >>, "-", "cannot_delete_last")
       ELSE /\ BoardsSaved(WithSelectedBoard(BoardsAfterDelete(app.ws), gen))
            /\ Ret("delete_board", << >>, "-", "deleted")
    /\ UNCHANGED boardsFrame

\* one round of run_benchmark: the default Board is dropped, the batch of
\* Boards is created, the workspace is saved and closed
run_benchmark ==
    /\ app = NoApp
    /\ LET batch == [_boards |-> [i \in 1..NUM_BOARDS_PER_WORKSPACE |-> i],
                     _selected_board_index |-> 0]
       IN  app' = [screen |-> "boards", open |-> FALSE, ws |-> batch,
                   disk |-> Workspace_to_dict(batch)]
    /\ Ret("run_benchmark", << >>, "-", "-")
    /\ UNCHANGED boardsFrame

\* the identities held by a Board's live tree and by its Bin
LiveLists(b) == { b.lists[i].list_id : i \in DOMAIN b.lists }
LiveCards(b) ==
    UNION { { b.lists[i].cards[j].card_id : j \in DOMAIN b.lists[i].cards } : i \in DOMAIN b.lists }
BinLists(b) == { b.bin.archived_lists[i].list_id : i \in DOMAIN b.bin.archived_lists }
BinCards(b) ==
    { b.bin.archived_cards[i].card.card_id : i \in DOMAIN b.bin.archived_cards }
        \cup UNION { { b.bin.archived_lists[i].cards[j].card_id :
                           j \in DOMAIN b.bin.archived_lists[i].cards } :
                     i \in DOMAIN b.bin.archived_lists }

(***************************************************************************)
(* The priority of a Card (card popups of main.py)                         *)
(*                                                                         *)
(* app holds the Cards of one List; a Card is its identity and priority.   *)
(***************************************************************************)
MIN_PRIORITY == 0
MAX_PRIORITY == 5

\* what the user may type into the priority popup: a number or other text
PriorityTexts ==
    { [kind |-> "int", val |-> v] : v \in (MIN_PRIORITY - 1)..(MAX_PRIORITY + 1) }
        \cup { [kind |-> "text"] }
\* int(value_str): the number, or ValueError
ParsesAsInt(value_str) == value_str.kind = "int"

\* the positions of the priority slider of the new-card popup
SliderValues == MIN_PRIORITY..MAX_PRIORITY

\* Card(name, description, deadline, priority)
CardWithPriority(gen, priority) == [card_id |-> gen, priority |-> priority]

OnCardList == app # NoApp /\ app.screen = "cards"
CardsSaved(cards) == app' = [app EXCEPT !.cards = cards, !.disk = cards]
cardFrame == << crypto, impl, available_workspaces, current_workspace_object,
                registry_file, dirs, files, clock, saved, fresh, next_id >>

open_card_list ==
    /\ app = NoApp
    /\ app' = [screen |-> "cards", cards |-> << >>, disk |-> << >>]
    /\ Ret("populate_cards", << >>, "-", "-")
    /\ UNCHANGED cardFrame

\* CardPopup.save_card for a new card: priority from the slider
save_new_card(slider) ==
    /\ OnCardList
    /\ Len(app.cards) < MaxIds
    /\ LET priority == slider
           new_card == CardWithPriority(Len(app.cards) + 1, priority)
       IN  CardsSaved(Append(app.cards, new_card))
    /\ Ret("add_card", << >>, "-", "added")
    /\ UNCHANGED cardFrame

\* CardPopup.save_card for an existing card: the card's own priority is kept
save_edited_card(j) ==
    /\ OnCardList
    /\ j \in DOMAIN app.cards
    /\ LET priority == app.cards[j].priority
       IN  CardsSaved([app.cards EXCEPT ![j].priority = priority])
    /\ Ret("edit_card", << >>, "-", "updated")
    /\ UNCHANGED cardFrame

\* a set-priority that stores whatever number was typed
set_priority_callback_stores_any_number(j, value_str) ==
    /\ OnCardList
    /\ j \in DOMAIN app.cards
    /\ IF ~ParsesAsInt(value_str)
       THEN /\ UNCHANGED app
            /\ Ret("set_priority", << >>, "-", "invalid_input")
       ELSE /\ CardsSaved([app.cards EXCEPT ![j].priority = value_str.val])
            /\ Ret("set_priority", << >>, "-", "updated")
    /\ UNCHANGED cardFrame

set_priority_callback(j, value_str) ==
    /\ OnCardList
    /\ j \in DOMAIN app.cards
    /\ IF ~ParsesAsInt(value_str)
       THEN /\ UNCHANGED app
            /\ Ret("set_priority", << >>, "-", "invalid_input")
       ELSE LET new_priority == value_str.val IN
            IF 0 <= new_priority /\ new_priority <= 5
            THEN /\ CardsSaved([app.cards EXCEPT ![j].priority = new_priority])
                 /\ Ret("set_priority", << >>, "-", "updated")
            ELSE /\ UNCHANGED app
                 /\ Ret("set_priority", << >>, "-", "out_of_range")
    /\ UNCHANGED cardFrame

(***************************************************************************)
(* The Bin of class_bin.py on its own, holding the Lists and Cards of      *)
(* temp_classes.py; a Card archived here has no source List tag.           *)
(***************************************************************************)
Bin_to_dict(bin) ==
    [ archived_lists |->
          [i \in DOMAIN bin.archived_lists |-> List_to_dict(bin.archived_lists[i])],
      archived_cards |->
          [i \in DOMAIN bin.archived_cards |-> Card_to_dict(bin.archived_cards[i].card)] ]

RECURSIVE archive_lists_from(_, _, _, _)
archive_lists_from(bin, list_data_list, i, gen) ==
    IF i > Len(list_data_list) THEN bin
    ELSE archive_lists_from(move_list_to_bin(bin, List_from_dict(list_data_list[i], gen)),
                            list_data_list, i + 1, gen)

RECURSIVE archive_cards_from(_, _, _, _)
archive_cards_from(bin, card_data_list, i, gen) ==
    IF i > Len(card_data_list) THEN bin
    ELSE archive_cards_from(move_card_to_bin(bin, Card_from_dict(card_data_list[i], gen), PNone),
                            card_data_list, i + 1, gen)

Bin_from_dict(data, gen) ==
    IF data = EmptyDict THEN EmptyBin
    ELSE archive_cards_from(
             archive_lists_from(EmptyBin, Get(data, "archived_lists", << >>), 1, gen),
             Get(data, "archived_cards", << >>), 1, gen)

BinIds == 1..MaxIds
BinListNames == ListNames
OnBin == app # NoApp /\ app.screen = "bin"
binFrame == << crypto, impl, available_workspaces, current_workspace_object,
               registry_file, dirs, files, clock, saved, fresh, next_id >>

new_bin ==
    /\ app = NoApp
    /\ app' = [screen |-> "bin", bin |-> EmptyBin]
    /\ Ret("Bin", << >>, "-", "-")
    /\ UNCHANGED binFrame

bin_move_list_to_bin(list_id, list_name) ==
    /\ OnBin
    /\ LET list_object == List(list_name, "-", list_id, list_id)
           archived == move_list_to_bin(app.bin, list_object)
       IN  /\ app' = [app EXCEPT !.bin = archived]
           /\ Ret("move_list_to_bin", list_id,
                  IF archived # app.bin THEN "true" ELSE "false", "-")
    /\ UNCHANGED binFrame

bin_move_card_to_bin(card_id, name) ==
    /\ OnBin
    /\ LET card_object == Card(name, "-", card_id, card_id)
       IN  app' = [app EXCEPT !.bin = move_card_to_bin(@, card_object, PNone)]
    /\ Ret("move_card_to_bin", card_id, "-", "-")
    /\ UNCHANGED binFrame

bin_round_trip ==
    /\ OnBin
    /\ app' = [app EXCEPT !.bin = Bin_from_dict(Bin_to_dict(@), NewId)]
    /\ Ret("from_dict", << >>, "-", "-")
    /\ UNCHANGED binFrame

\* KanbanApp.open_workspace_callback: what the user is shown for the value
\* open_workspace returned
open_workspace_callback(workspace_result) ==
    IF workspace_result = "ok" THEN "board_screen" ELSE "Incorrect password."

\* Bin.permanently_delete_list: every archived List of that name goes
permanently_delete_list(bin, item_name) ==
    [bin EXCEPT !.archived_lists = SelectSeq(@, LAMBDA l : l.name # item_name)]

RECURSIVE purge_cards(_, _, _)
purge_cards(bin, cards_to_delete, i) ==
    IF i > Len(cards_to_delete) THEN bin
    ELSE purge_cards(permanently_delete_card(bin, cards_to_delete[i].name),
                     cards_to_delete, i + 1)

\* BinScreen.delete_item_permanently
delete_item_permanently(item_name, item_type) ==
    /\ OnBoardScreen
    /\ LET b == app.board IN
       IF item_type = "list"
       THEN LET tagged == SelectSeq(b.bin.archived_cards,
                                    LAMBDA entry : entry.source_list = item_name)
                cards_to_delete == [i \in DOMAIN tagged |-> tagged[i].card]
                without_list == permanently_delete_list(b.bin, item_name)
            IN  IF without_list # b.bin
                THEN /\ Saved([b EXCEPT !.bin = purge_cards(without_list, cards_to_delete, 1)])
                     /\ Ret("delete_item_permanently", item_name, "list", "deleted")
                ELSE /\ UNCHANGED app
                     /\ Ret("delete_item_permanently", item_name, "list", "not_in_bin")
       ELSE LET without_card == permanently_delete_card(b.bin, item_name) IN
            IF without_card # b.bin
            THEN /\ Saved([b EXCEPT !.bin = without_card])
                 /\ Ret("delete_item_permanently", item_name, "card", "deleted")
            ELSE /\ UNCHANGED app
                 /\ Ret("delete_item_permanently", item_name, "card", "not_in_bin")
    /\ UNCHANGED << boardFrame, next_id >>

(***************************************************************************)
(* The workspace screen of main.py: opening a workspace, going back, and   *)
(* the password flows, over the open, save and close of the manager.       *)
(***************************************************************************)
TypedPasswords == { "", "p" }

OnWorkspacesScreen == app # NoApp /\ app.screen = "workspaces"
OnBoardOfWorkspace == app # NoApp /\ app.screen = "board"

\* KanbanApp.build: the screen manager starts on the workspace screen
build ==
    /\ app = NoApp
    /\ app' = [screen |-> "workspaces"]
    /\ Ret("build", <<>>, "-", "-")
    /\ UNCHANGED << crypto, impl, available_workspaces, current_workspace_object,
                    registry_file, dirs, files, clock, next_id, saved, fresh >>

\* workspace.set_password
set_password(ws, new_password) == [ws EXCEPT !.pwd = new_password]

\* what save_current_workspace returns for the workspace in the slot
SaveResult(ws_obj, fault) ==
    IF ws_obj = None THEN "no_workspace"
    ELSE IF ws_obj.name \notin DOMAIN available_workspaces THEN "not_in_list"
    ELSE IF fault = "none" THEN "saved" ELSE "ioerror"

\* what save_current_workspace does to the disk for the workspace in the slot
SaveWrites(ws_obj, fault) ==
    IF SaveResult(ws_obj, fault) \in { "no_workspace", "not_in_list" }
    THEN UNCHANGED << dirs, files, saved, fresh >>
    ELSE LET workspace_path == available_workspaces[ws_obj.name] IN
         /\ (fault = "open" => workspace_path \in DOMAIN files)
         /\ dirs' = dirs \cup { workspace_path }
         /\ files' = IF fault = "open" THEN files
                     ELSE DictSet(files, workspace_path, FileAfterSave(NoFile, ws_obj, fault))
         /\ saved' = IF fault = "none" THEN DictSet(saved, workspace_path, ws_obj) ELSE saved
         /\ fresh' = IF fault = "open" THEN fresh ELSE fresh \ { workspace_path }

\* KanbanApp.create_workspace_callback
create_workspace_callback(name) ==
    /\ OnWorkspacesScreen
    /\ create_workspace(name, INDIVIDUAL_WORKSPACES_DEFAULT_ROOT, "none")

\* KanbanApp.open_workspace and open_workspace_callback: the board screen is
\* shown when the manager returned a workspace
KanbanApp_open_workspace(workspace_name, attempts, fault) ==
    LET outcome == OpenOutcome(workspace_name, attempts, fault) IN
    /\ OnWorkspacesScreen
    /\ outcome # "waiting_for_input"
    /\ PromptsOf(workspace_name, attempts, fault) = Len(attempts)
    /\ current_workspace_object' = SlotAfterOpen(workspace_name, outcome)
    /\ app' = IF outcome = "opened" THEN [app EXCEPT !.screen = "board"] ELSE app
    /\ Ret("KanbanApp.open_workspace", workspace_name,
           open_workspace_callback(IF outcome = "opened" THEN "ok" ELSE "none"), outcome)
    /\ UNCHANGED << crypto, impl, available_workspaces, registry_file, dirs, files, clock,
                    next_id, saved, fresh >>

\* BoardScreen.go_back_to_workspaces: save and close what is open, then leave
go_back_to_workspaces(fault) ==
    /\ OnBoardOfWorkspace
    /\ SaveWrites(current_workspace_object, fault)
    /\ current_workspace_object' = None
    /\ app' = [app EXCEPT !.screen = "workspaces"]
    /\ Ret("go_back_to_workspaces", <<>>, "-", SaveResult(current_workspace_object, fault))
    /\ UNCHANGED << crypto, impl, available_workspaces, registry_file, clock, next_id >>

\* the password check of both flows: open, and close again when it opened
PasswordCheck(op, workspace_name, attempts, fault) ==
    LET outcome == OpenOutcome(workspace_name, attempts, fault) IN
    /\ OnWorkspacesScreen
    /\ outcome # "waiting_for_input"
    /\ PromptsOf(workspace_name, attempts, fault) = Len(attempts)
    /\ current_workspace_object' =
           IF outcome = "opened" THEN None ELSE SlotAfterOpen(workspace_name, outcome)
    /\ Ret(op, workspace_name,
           IF outcome = "opened" THEN "TextInputPopup" ELSE "Incorrect password.", outcome)
    /\ UNCHANGED << crypto, app, impl, available_workspaces, registry_file, dirs, files,
                    clock, next_id, saved, fresh >>

\* KanbanApp.rename_password_check_callback
rename_password_check_callback(old_name, attempts, fault) ==
    PasswordCheck("rename_password_check_callback", old_name, attempts, fault)

\* KanbanApp.change_password_confirm_callback
change_password_confirm_callback(workspace_name, attempts, fault) ==
    PasswordCheck("change_password_confirm_callback", workspace_name, attempts, fault)

\* a set-password flow that closes the workspace only after a save that worked
set_password_callback_keeps_open(workspace_name, password, attempts, open_fault, save_fault) ==
    LET outcome == OpenOutcome(workspace_name, attempts, open_fault)
        opened == SlotAfterOpen(workspace_name, outcome)
    IN  /\ OnWorkspacesScreen
        /\ outcome # "waiting_for_input"
        /\ PromptsOf(workspace_name, attempts, open_fault) = Len(attempts)
        /\ IF outcome = "opened"
           THEN LET ws_obj == set_password(opened, password) IN
                /\ SaveWrites(ws_obj, save_fault)
                /\ current_workspace_object' =
                       IF SaveResult(ws_obj, save_fault) = "saved" THEN None ELSE ws_obj
                /\ Ret("set_password_callback", workspace_name, "Password updated.",
                       SaveResult(ws_obj, save_fault))
           ELSE /\ current_workspace_object' = opened
                /\ Ret("set_password_callback", workspace_name, "Could not update password.",
                       outcome)
                /\ UNCHANGED << dirs, files, saved, fresh >>
        /\ UNCHANGED << crypto, app, impl, available_workspaces, registry_file, clock, next_id >>

\* KanbanApp.set_password_callback: open, set the password on the object, save,
\* close, and tell the user
set_password_callback(workspace_name, password, attempts, open_fault, save_fault) ==
    LET outcome == OpenOutcome(workspace_name, attempts, open_fault)
        opened == SlotAfterOpen(workspace_name, outcome)
    IN  /\ OnWorkspacesScreen
        /\ outcome # "waiting_for_input"
        /\ PromptsOf(workspace_name, attempts, open_fault) = Len(attempts)
        /\ IF outcome = "opened"
           THEN LET ws_obj == set_password(opened, password) IN
                /\ SaveWrites(ws_obj, save_fault)
                /\ current_workspace_object' = None
                /\ Ret("set_password_callback", workspace_name, "Password updated.",
                       SaveResult(ws_obj, save_fault))
           ELSE /\ current_workspace_object' = opened
                /\ Ret("set_password_callback", workspace_name, "Could not update password.",
                       outcome)
                /\ UNCHANGED << dirs, files, saved, fresh >>
        /\ UNCHANGED << crypto, app, impl, available_workspaces, registry_file, clock, next_id >>

(***************************************************************************)
(* DragDropManager of main.py.  app holds the cards of two lists of the    *)
(* open board, the manager's fields, and whether the dragged card widget   *)
(* is still among the children of the layout it was taken from.            *)
(***************************************************************************)
DragLists == 1..2
Nothing == << >>                           \* None in a field of the manager

\* DragDropManager.__init__
NewDragDropManager ==
    [ is_dragging |-> FALSE, dragged_card |-> Nothing, dragged_card_widget |-> Nothing,
      drag_ghost |-> Nothing, original_parent |-> Nothing, original_list_widget |-> Nothing,
      scroll_trigger |-> Nothing ]

OnDragBoard == app # NoApp /\ app.screen = "drag"
dragFrame == << crypto, impl, available_workspaces, current_workspace_object, registry_file,
                dirs, files, clock, next_id, saved, fresh >>

\* the board screen with two empty lists and an idle manager
show_board ==
    /\ app = NoApp
    /\ app' = [ screen |-> "drag", lists |-> << << >>, << >> >>, made |-> 0,
                manager |-> NewDragDropManager, attached |-> FALSE ]
    /\ Ret("show_board", <<>>, "-", "-")
    /\ UNCHANGED dragFrame

\* ListWidget.add_card_callback: the card is appended and populate_cards
\* replaces every card widget of this list by a new one
ListWidget_add_card_callback(k) ==
    /\ OnDragBoard
    /\ app.made < MaxIds
    /\ app' = [app EXCEPT !.lists[k] = Append(@, app.made + 1),
                          !.made = @ + 1,
                          !.attached = IF app.manager.original_list_widget = << k >>
                                       THEN FALSE ELSE @]
    /\ Ret("add_card", k, "-", "-")
    /\ UNCHANGED dragFrame

\* DragDropManager.start_drag on the widget of the card at place j of list k
start_drag(k, j) ==
    /\ OnDragBoard
    /\ j \in DOMAIN app.lists[k]
    /\ IF app.manager.is_dragging
       THEN /\ UNCHANGED app
            /\ Ret("start_drag", << k, j >>, "False", "-")
       ELSE /\ app' = [app EXCEPT
                          !.manager = [ is_dragging |-> TRUE,
                                        dragged_card |-> << app.lists[k][j] >>,
                                        dragged_card_widget |-> << k, j >>,
                                        drag_ghost |-> << "ghost" >>,
                                        original_parent |-> << k >>,
                                        original_list_widget |-> << k >>,
                                        scroll_trigger |-> << "scheduled" >> ],
                          !.attached = TRUE]
            /\ Ret("start_drag", << k, j >>, "True", "-")
    /\ UNCHANGED dragFrame

\* where end_drag may find the pointer: over no list, or at an index of a list
DropLocations ==
    { Nothing } \cup { << kt, index >> : kt \in DragLists, index \in 0..MaxIds }

\* self.original_parent.children.index(self.dragged_card_widget): children are
\* kept last added first
children_index(lists, dragged_card_widget) ==
    Len(lists[dragged_card_widget[1]]) - dragged_card_widget[2]

\* the place of the card among the cards of a list, 0 when it is not there
PlaceOf(cards, card) ==
    IF \E p \in DOMAIN cards : cards[p] = card
    THEN CHOOSE p \in DOMAIN cards : cards[p] = card
    ELSE 0

\* DragDropManager._perform_drop: "raised", or the lists after it
DropOutcome(lists, manager, attached, drop_location) ==
    LET kt == drop_location[1]
        index == drop_location[2]
        ks == manager.original_list_widget[1]
        card == manager.dragged_card[1]
    IN  IF kt = ks /\ ~attached THEN "raised"
        ELSE IF kt = ks /\ index = children_index(lists, manager.dragged_card_widget)
        THEN "same_position"
        ELSE "moved"

lists_after_drop(lists, manager, drop_location) ==
    LET kt == drop_location[1]
        index == drop_location[2]
        ks == manager.original_list_widget[1]
        card == manager.dragged_card[1]
        place == PlaceOf(lists[ks], card)
        original_data_index == place - 1
        removed == IF place # 0 THEN [lists EXCEPT ![ks] = RemoveAt(@, place)] ELSE lists
        target_index == IF ks = kt /\ original_data_index # -1 /\ original_data_index < index
                        THEN index - 1 ELSE index
    IN  [removed EXCEPT ![kt] = Insert(@, target_index, card)]

\* DragDropManager.end_drag: the drop when a location was found, then _cleanup_drag,
\* which an exception raised by the drop does not reach
end_drag(drop_location) ==
    /\ OnDragBoard
    /\ app.manager.is_dragging
    /\ drop_location # Nothing => drop_location[2] <= Len(app.lists[drop_location[1]])
    /\ LET outcome == IF drop_location = Nothing THEN "no_location"
                      ELSE DropOutcome(app.lists, app.manager, app.attached, drop_location)
       IN  IF outcome = "raised"
           THEN /\ UNCHANGED app
                /\ Ret("end_drag", drop_location, "ValueError", outcome)
           ELSE /\ app' = [app EXCEPT
                              !.lists = IF outcome = "moved"
                                        THEN lists_after_drop(@, app.manager, drop_location)
                                        ELSE @,
                              !.manager = NewDragDropManager,
                              !.attached = FALSE]
                /\ Ret("end_drag", drop_location, "True", outcome)
    /\ UNCHANGED dragFrame

(***************************************************************************)
(* KanbanApp.rename_workspace_callback and its _RENAME_IN_PROGRESS flag.   *)
(* The callback is taken statement by statement, for every caller that may *)
(* be inside it: app holds the flag and, per caller, where it is, the new  *)
(* name it was given and how its try block ended.                          *)
(***************************************************************************)
RenameCallers == 1..2
RenameNewNames == { << >>, << "a" >>, << "b" >> }
RenameResults == { "renamed", "failed", "raised" }   \* True, False, an exception

OnRenameDialog == app # NoApp /\ app.screen = "rename"
renameFrame == << crypto, impl, available_workspaces, current_workspace_object, registry_file,
                  dirs, files, clock, next_id, saved, fresh >>

\* KanbanApp: _RENAME_IN_PROGRESS = False, nobody inside the callback
show_rename_dialog ==
    /\ app = NoApp
    /\ app' = [ screen |-> "rename", _RENAME_IN_PROGRESS |-> FALSE,
                at |-> [c \in RenameCallers |-> "out"],
                new_name |-> [c \in RenameCallers |-> << >>],
                toast |-> [c \in RenameCallers |-> "-"] ]
    /\ Ret("show_rename_dialog", <<>>, "-", "-")
    /\ UNCHANGED renameFrame

\* if self._RENAME_IN_PROGRESS: return
rename_enter(c, new_name) ==
    /\ OnRenameDialog
    /\ app.at[c] = "out"
    /\ IF app._RENAME_IN_PROGRESS
       THEN /\ UNCHANGED app
            /\ Ret("rename_workspace_callback", new_name, "-", "in_progress")
       ELSE /\ app' = [app EXCEPT !.at[c] = "checked", !.new_name[c] = new_name]
            /\ Ret("rename_enter", new_name, "-", "-")
    /\ UNCHANGED renameFrame

\* self._RENAME_IN_PROGRESS = True
rename_set_flag(c) ==
    /\ OnRenameDialog
    /\ app.at[c] = "checked"
    /\ app' = [app EXCEPT !._RENAME_IN_PROGRESS = TRUE, !.at[c] = "try"]
    /\ Ret("rename_set_flag", c, "-", "-")
    /\ UNCHANGED renameFrame

\* the try block: what the user is told, or the exception it ends with
RenameToast(new_name, rename_result) ==
    IF new_name = << >> THEN "New name cannot be empty."
    ELSE IF rename_result = "renamed" THEN "Renamed."
    ELSE IF rename_result = "failed" THEN "Failed to rename."
    ELSE "Failed to rename: exception"

rename_try(c, rename_result) ==
    /\ OnRenameDialog
    /\ app.at[c] = "try"
    /\ app' = [app EXCEPT !.at[c] = "finally",
                          !.toast[c] = RenameToast(app.new_name[c], rename_result)]
    /\ Ret("rename_try", c, "-", "-")
    /\ UNCHANGED renameFrame

\* a callback that clears the flag at the end of the try block only
rename_finally_not_after_exception(c) ==
    /\ OnRenameDialog
    /\ app.at[c] = "finally"
    /\ app' = [app EXCEPT !._RENAME_IN_PROGRESS =
                              IF app.toast[c] = "Failed to rename: exception" THEN @ ELSE FALSE,
                          !.at[c] = "out", !.new_name[c] = << >>, !.toast[c] = "-"]
    /\ Ret("rename_workspace_callback", app.new_name[c], "-", app.toast[c])
    /\ UNCHANGED renameFrame

\* finally: self._RENAME_IN_PROGRESS = False
rename_finally(c) ==
    /\ OnRenameDialog
    /\ app.at[c] = "finally"
    /\ app' = [app EXCEPT !._RENAME_IN_PROGRESS = FALSE,
                          !.at[c] = "out", !.new_name[c] = << >>, !.toast[c] = "-"]
    /\ Ret("rename_workspace_callback", app.new_name[c], "-", app.toast[c])
    /\ UNCHANGED renameFrame

(***************************************************************************)
(* Specifications                                                          *)
(***************************************************************************)
InitWith(i) ==
    /\ impl = i
    /\ available_workspaces = EmptyDict
    /\ current_workspace_object = None
    /\ registry_file = NoFile
    /\ dirs = {}
    /\ files = EmptyDict
    /\ clock = 0
    /\ next_id = 0
    /\ lastCall = [ op |-> "init", arg |-> <<>>, result |-> "-", note |-> "-" ]
    /\ saved = EmptyDict
    /\ fresh = {}
    /\ crypto = NoCall
    /\ app = NoApp

Attempts ==
    UNION { [ 1..n -> AttemptInputs(impl) ] : n \in 1..MAX_PASSWORD_ATTEMPTS }

\* a call that does not prompt reads no answer
AttemptsFor(name_to_open, fault) ==
    IF OpenOutcome(name_to_open, <<>>, fault) = "waiting_for_input" THEN Attempts ELSE { <<>> }

\* the calls a caller can make; faults is what the file system may do to them
ManagerNext(names, faults) ==
    \/ Restart
    \/ load_workspaces
    \/ \E n \in names, p \in ParentInputs, f \in CreateFaults \cap faults :
           create_workspace(n, p, f)
    \/ \E n \in OpenNameInputs, f \in OpenFaults \cap faults :
           \E a \in AttemptsFor(n, f) : open_workspace(n, a, f)
    \/ \E f \in SaveFaults \cap faults : save_current_workspace(f)
    \/ close_current_workspace
    \/ \E new \in NewPwdInputs, old \in OldPwdInputs : ws_set_pwd(new, old)
    \/ ws_update_last_edited

TreeNext ==
    \/ \E n \in ListNames : board_create_list(n)
    \/ \E k \in 1..MaxIds : board_remove_list(k)
    \/ \E k \in 1..MaxIds, n \in CardNames : list_create_card(k, n)
    \/ \E k \in 1..MaxIds, j \in 1..MaxIds : list_remove_card(k, j)
    \/ \E k \in 1..MaxIds, n \in NewListNames : list_change_name(k, n)

NoFaults == { "none" }
AllFaults == CreateFaults \cup SaveFaults \cup OpenFaults

\* app_classes.py, two workspaces, a file system that does not fail
Init == InitWith("app_classes")
Next == ManagerNext(NameInputs, NoFaults) \/ Tick
Spec == Init /\ [][Next]_vars

\* app_classes.py, one workspace, a file system that may fail any call
InitFaults == InitWith("app_classes")
NextFaults == ManagerNext(OneNameInputs, AllFaults) \/ Tick
SpecFaults == InitFaults /\ [][NextFaults]_vars

\* temp_classes.py, one workspace, with its lists and cards, within one clock reading
InitTree == InitWith("temp_classes")
NextTree == ManagerNext(TreeNameInputs, NoFaults) \/ TreeNext
SpecTree == InitTree /\ [][NextTree]_vars

\* app_classes.py with delete and rename, two workspaces, and a disk that changes
\* behind the manager's back
EnvNext ==
    \/ \E path \in dirs : env_remove_data_file(path)
    \/ \E path \in dirs : env_remove_directory(path)
    \/ \E path \in dirs : env_corrupt_data_file(path)
    \/ \E content \in BrokenRegistryFiles : env_overwrite_registry(content)

InitDisk == InitWith("app_classes")
NextDisk ==
    \/ Restart
    \/ load_workspaces
    \/ \E n \in OpenNameInputs : create_workspace(n, INDIVIDUAL_WORKSPACES_DEFAULT_ROOT, "none")
    \/ \E n \in OpenNameInputs : \E a \in AttemptsFor(n, "none") : open_workspace(n, a, "none")
    \/ save_current_workspace("none")
    \/ close_current_workspace
    \/ \E n \in OpenNameInputs : delete_workspace(n)
    \/ \E old \in OpenNameInputs, new \in OpenNameInputs, c \in BOOLEAN :
           rename_workspace(old, new, c)
    \/ EnvNext
SpecDisk == InitDisk /\ [][NextDisk]_vars

\* the board screen of main.py over one Board: its Lists, its Bin and its
\* completed-list designation
ListsNext ==
    \/ load_current_board
    \/ \E n \in BoardListNames \cup { "" } : add_new_list_callback(n)
    \/ \E k \in 1..MaxIds : move_to_bin(k)
    \/ \E k \in 1..MaxIds, n \in BoardListNames \cup { "" } : rename_callback(k, n)
    \/ \E n \in BoardListNames : restore_item(n, "list")

InitBoard == InitWith("main")
NextBoard ==
    \/ ListsNext
    \/ \E k \in 1..MaxIds : set_as_completed(k)
    \/ \E n \in BoardListNames \cup { PNone } : board_set_completed_list(n)
SpecBoard == InitBoard /\ [][NextBoard]_vars

\* the same screen with the Cards of the Lists, no List designated
InitCards == InitWith("main")
NextCards ==
    \/ ListsNext
    \/ \E k \in 1..MaxIds, n \in BoardCardNames : add_card_callback(k, n)
    \/ \E k \in 1..MaxIds, j \in 1..MaxIds : delete_card_confirmed(k, j)
    \/ \E n \in BoardCardNames : restore_item(n, "card")
    \/ \E ks \in 1..MaxIds, j \in 1..MaxIds, kt \in 1..MaxIds, index \in 0..MaxIds :
           perform_drop(ks, j, kt, index)
SpecCards == InitCards /\ [][NextCards]_vars

\* the Encryption Helper alone
InitCrypto == InitWith("app_classes")
NextCrypto ==
    \/ \E t \in Texts, pw \in Passwords, salt \in Salts : Encrypt(t, pw, salt)
    \/ \E pw \in Passwords : Decrypt(pw)
SpecCrypto == InitCrypto /\ [][NextCrypto]_vars

\* the Boards of one workspace: created, opened, navigated, deleted, closed
InitBoards == InitWith("main")
NextBoards ==
    \/ \E gen \in BoardIds : create_default_workspace(gen)
    \/ run_benchmark
    \/ \E gen \in BoardIds : open_boards(gen)
    \/ close_boards
    \/ \E data \in StoredForms : env_edit_data_file(data)
    \/ \E gen \in BoardIds : create_new_board_and_load_it(gen)
    \/ load_next_board
    \/ load_previous_board
    \/ \E gen \in BoardIds : delete_board(gen)
SpecBoards == InitBoards /\ [][NextBoards]_vars

\* temp_classes.py with a clock that moves and a directory that may vanish
InitStamp == InitWith("temp_classes")
NextStamp ==
    \/ load_workspaces
    \/ \E n \in TreeNameInputs : create_workspace(n, INDIVIDUAL_WORKSPACES_DEFAULT_ROOT, "none")
    \/ \E n \in TreeNameInputs : \E a \in AttemptsFor(n, "none") : open_workspace(n, a, "none")
    \/ save_current_workspace("none")
    \/ close_current_workspace
    \/ \E new \in NewPwdInputs, old \in OldPwdInputs : ws_set_pwd(new, old)
    \/ \E path \in dirs : env_remove_directory(path)
    \/ Tick
SpecStamp == InitStamp /\ [][NextStamp]_vars

\* the Cards of one List and their priorities
InitPriority == InitWith("main")
NextPriority ==
    \/ open_card_list
    \/ \E slider \in SliderValues : save_new_card(slider)
    \/ \E j \in 1..MaxIds : save_edited_card(j)
    \/ \E j \in 1..MaxIds, value_str \in PriorityTexts : set_priority_callback(j, value_str)
SpecPriority == InitPriority /\ [][NextPriority]_vars

\* the Bin alone: Lists and Cards archived, the Bin written and read back
InitBin == InitWith("temp_classes")
NextBin ==
    \/ new_bin
    \/ \E id \in BinIds, n \in BinListNames : bin_move_list_to_bin(id, n)
    \/ \E id \in BinIds, n \in CardNames : bin_move_card_to_bin(id, n)
    \/ bin_round_trip
SpecBin == InitBin /\ [][NextBin]_vars

\* the bin screen: Lists and Cards deleted, Lists restored, items purged
InitPurge == InitWith("main")
NextPurge ==
    \/ ListsNext
    \/ \E k \in 1..MaxIds, n \in BoardCardNames : add_card_callback(k, n)
    \/ \E k \in 1..MaxIds, j \in 1..MaxIds : delete_card_confirmed(k, j)
    \/ \E n \in BoardListNames : delete_item_permanently(n, "list")
    \/ \E n \in BoardCardNames : delete_item_permanently(n, "card")
SpecPurge == InitPurge /\ [][NextPurge]_vars

\* app_classes.py with delete and rename, the disk left to the manager
InitNames == InitWith("app_classes")
NextNames ==
    \/ Restart
    \/ load_workspaces
    \/ \E n \in OpenNameInputs : create_workspace(n, INDIVIDUAL_WORKSPACES_DEFAULT_ROOT, "none")
    \/ \E n \in OpenNameInputs : \E a \in AttemptsFor(n, "none") : open_workspace(n, a, "none")
    \/ save_current_workspace("none")
    \/ close_current_workspace
    \/ \E n \in OpenNameInputs : delete_workspace(n)
    \/ \E old \in OpenNameInputs, new \in OpenNameInputs, c \in BOOLEAN :
           rename_workspace(old, new, c)
SpecNames == InitNames /\ [][NextNames]_vars

\* the workspace screen of main.py over the manager of app_classes.py
InitFlows == InitWith("app_classes")
NextFlows ==
    \/ build
    \/ \E n \in OpenNameInputs : create_workspace_callback(n)
    \/ \E n \in OpenNameInputs, f \in OpenFaults :
           \E a \in AttemptsFor(n, f) : KanbanApp_open_workspace(n, a, f)
    \/ \E f \in SaveFaults : go_back_to_workspaces(f)
    \/ \E n \in OpenNameInputs, f \in OpenFaults :
           \E a \in AttemptsFor(n, f) : rename_password_check_callback(n, a, f)
    \/ \E n \in OpenNameInputs, f \in OpenFaults :
           \E a \in AttemptsFor(n, f) : change_password_confirm_callback(n, a, f)
    \/ \E n \in OpenNameInputs, p \in TypedPasswords, f \in OpenFaults, s \in SaveFaults :
           \E a \in AttemptsFor(n, f) : set_password_callback(n, p, a, f, s)
SpecFlows == InitFlows /\ [][NextFlows]_vars

\* the drag and drop manager over two lists of cards
InitDrag == InitWith("main")
NextDrag ==
    \/ show_board
    \/ \E k \in DragLists : ListWidget_add_card_callback(k)
    \/ \E k \in DragLists, j \in 1..MaxIds : start_drag(k, j)
    \/ \E drop_location \in DropLocations : end_drag(drop_location)
SpecDrag == InitDrag /\ [][NextDrag]_vars

\* rename_workspace_callback, statement by statement, for two callers
InitRename == InitWith("main")
NextRename ==
    \/ show_rename_dialog
    \/ \E c \in RenameCallers, n \in RenameNewNames : rename_enter(c, n)
    \/ \E c \in RenameCallers : rename_set_flag(c)
    \/ \E c \in RenameCallers, r \in RenameResults : rename_try(c, r)
    \/ \E c \in RenameCallers : rename_finally(c)
SpecRename == InitRename /\ [][NextRename]_vars

(***************************************************************************)
(* Properties                                                              *)
(***************************************************************************)
\* C1: while a workspace A is open, opening any other registered workspace B
\* returns no workspace and leaves A the open workspace.
C1_OpenIsExclusive ==
    [][ \A n \in OpenNameInputs :
          ( /\ current_workspace_object # None
            /\ lastCall'.op = "open"
            /\ \E a \in AttemptsFor(n, "none") : open_workspace(n, a, "none")
            /\ n \in DOMAIN available_workspaces
            /\ n # current_workspace_object.name )
          => ( /\ lastCall'.result = "none"
               /\ current_workspace_object' = current_workspace_object ) ]_vars

C3_ProtectedOpen ==
    [][ \A n \in OpenNameInputs \cap DOMAIN available_workspaces :
          LET path == available_workspaces[n] IN
          ( /\ lastCall'.op = "open"
            /\ path \in DOMAIN files
            /\ ParsesAsPlaintext(files[path])
            /\ Truthy(files[path].val.pwd) )
          => LET pwd == files[path].val.pwd
                 cancel == CancelSentinel(impl)
             IN  /\ open_workspace(n, << cancel >>, "none")
                       => ( /\ lastCall'.result = "password_required"
                            /\ current_workspace_object' = current_workspace_object )
                 /\ \A a \in Attempts :
                       ( /\ \A k \in DOMAIN a : a[k] \notin { pwd, cancel }
                         /\ open_workspace(n, a, "none") )
                       => ( /\ lastCall'.result = "none"
                            /\ current_workspace_object' = current_workspace_object )
                 /\ open_workspace(n, << pwd >>, "none")
                       => ( /\ lastCall'.result = "ok"
                            /\ current_workspace_object' # None
                            /\ current_workspace_object'.name = n ) ]_vars

\* C4: after every successful save the data file fails the plaintext probe
\* exactly when the in-memory workspace has a password set.
C4_EncryptedIffPassword ==
    [][ ( lastCall'.result = "true" /\ save_current_workspace("none") )
          => LET ws == current_workspace_object'
                 file == files'[available_workspaces[ws.name]]
             IN  ~ParsesAsPlaintext(file) <=> Truthy(ws.pwd) ]_vars

\* C5: no data file holds the workspace password as readable content.
C5_NoCleartextPassword ==
    \A path \in DOMAIN files :
        ParsesAsPlaintext(files[path]) => ~Truthy(files[path].val.pwd)

\* C6: decrypting a blob with the password it was encrypted with returns exactly
\* the text; with any other password it fails with the authentication-failure
\* condition and returns no plaintext.
C6_EncryptionRoundTrip ==
    crypto.op = "decrypt" =>
        IF crypto.attempt = crypto.password
        THEN crypto.result = [ ok |-> crypto.plaintext ]
        ELSE crypto.result = AuthenticationFailed

C6_Witness ==
    /\ crypto.op = "decrypt"
    /\ crypto.attempt # crypto.password
    /\ crypto.plaintext # <<>>
    /\ crypto.result = AuthenticationFailed

\* C7: create with an empty or blank name, a registered name or an occupied
\* target path returns no workspace and leaves the registry, in memory and on
\* disk, the file system and the open slot as they were.
C7_FailedCreateChangesNothing ==
    [][ \A n \in NameInputs \cup OneNameInputs, p \in ParentInputs :
          ( /\ lastCall'.op = "create"
            /\ \/ strip(n) = <<>>
               \/ strip(n) \in DOMAIN available_workspaces
               \/ join(p, strip(n)) \in dirs
            /\ create_workspace(n, p, "none") )
          => ( /\ lastCall'.result = "none"
               /\ available_workspaces' = available_workspaces
               /\ registry_file' = registry_file
               /\ dirs' = dirs
               /\ files' = files
               /\ current_workspace_object' = current_workspace_object ) ]_vars

C7_Witness ==
    /\ lastCall.op = "create"
    /\ lastCall.result = "none"
    /\ lastCall.note = "exists"
    /\ dirs # {}

\* C8: after a successful create the directory and the data file exist, the name
\* is registered and the open slot is empty.
C8_CreateLeavesSlotEmpty ==
    [][ \A n \in NameInputs, p \in ParentInputs :
          ( lastCall'.result = "ok" /\ create_workspace(n, p, "none") )
          => ( /\ join(p, strip(n)) \in dirs'
               /\ join(p, strip(n)) \in DOMAIN files'
               /\ strip(n) \in DOMAIN available_workspaces'
               /\ current_workspace_object' = None ) ]_vars

\* C9: a workspace whose data file is the one create wrote opens without a
\* password prompt, and the workspace returned has one Board with no Lists.
C9_FreshOpensWithoutPassword ==
    [][ \A n \in OpenNameInputs :
          ( /\ lastCall'.op = "open"
            /\ n \in DOMAIN available_workspaces
            /\ available_workspaces[n] \in fresh
            /\ \E a \in AttemptsFor(n, "none") : open_workspace(n, a, "none") )
          => ( /\ open_workspace(n, <<>>, "none")
               /\ lastCall'.result = "ok"
               /\ current_workspace_object' # None
               /\ current_workspace_object'.name = n
               /\ current_workspace_object'.pwd = PNone
               /\ current_workspace_object'.board # None
               /\ current_workspace_object'.board.lists = <<>> ) ]_vars

C9_Witness ==
    /\ lastCall.op = "open"
    /\ lastCall.result = "ok"
    /\ current_workspace_object # None
    /\ current_workspace_object.name \in DOMAIN available_workspaces
    /\ available_workspaces[current_workspace_object.name] \in fresh

\* C10: close empties the open slot and writes nothing, a mutation of the open
\* workspace writes nothing, and a successful open returns the workspace as the
\* latest successful save, or create, wrote it.
C10_OnlySaveWrites ==
    [][ LET DiskUnchanged ==
                files' = files /\ dirs' = dirs /\ registry_file' = registry_file
        IN
        /\ ( lastCall'.op = "close" /\ close_current_workspace )
            => ( current_workspace_object' = None /\ DiskUnchanged )
        /\ ( /\ lastCall'.op \notin { "open", "close", "create", "save" }
             /\ \/ TreeNext
                \/ \E new \in NewPwdInputs, old \in OldPwdInputs : ws_set_pwd(new, old)
                \/ ws_update_last_edited )
            => DiskUnchanged
        /\ \A n \in OpenNameInputs :
              ( /\ lastCall'.op = "open"
                /\ lastCall'.result = "ok"
                /\ \E a \in AttemptsFor(n, "none") : open_workspace(n, a, "none") )
              => current_workspace_object' = saved[available_workspaces[n]] ]_vars

\* the open workspace was mutated since it was saved, and the disk holds the save
C10_Witness ==
    /\ current_workspace_object # None
    /\ current_workspace_object.name \in DOMAIN available_workspaces
    /\ LET path == available_workspaces[current_workspace_object.name] IN
        /\ path \in DOMAIN saved
        /\ current_workspace_object.board.lists # <<>>
        /\ saved[path].board.lists = <<>>
        /\ files[path] = Json(workspace_to_dict(impl, saved[path]))

\* C11: after every successful save the workspace's last_edited is the time of
\* the save, and the last-modified cached in its registry entry equals the
\* last_edited written in its data file.
C11_SaveStampsAndCaches ==
    [][ ( /\ lastCall'.op = "save"
          /\ lastCall'.result = "true"
          /\ save_current_workspace("none") )
        => LET ws == current_workspace_object'
               entry == available_workspaces'[ws.name]
           IN  /\ ws.last_edited = clock
               /\ registry_entry_last_edited(entry) = files'[entry].val.last_edited ]_vars

\* C17: create_list with a name that a live List of the Board already has,
\* ignoring case, returns none and leaves the Board's lists as they were.
C17_CreateListUniqueName ==
    [][ \A n \in ListNames :
          LET fold(s) == IF s = "Todo" THEN "todo" ELSE s
              lists == current_workspace_object.board.lists
          IN  ( /\ lastCall'.op = "create_list"
                /\ board_create_list(n)
                /\ \E k \in DOMAIN lists : fold(lists[k].list_name) = fold(n) )
              => ( /\ lastCall'.result = "none"
                   /\ current_workspace_object'.board.lists = lists ) ]_vars

\* C12: delete of the currently open workspace is refused and leaves its
\* directory, its data file, its registry entry and the open slot as they were;
\* delete of any other registered name removes the directory with its data file
\* and the registry entry, in memory and on disk, after which open of that name
\* fails as not registered.
C12_DeleteRefusesOpen ==
    [][ \A n \in OpenNameInputs \cap DOMAIN available_workspaces :
          LET path == available_workspaces[n]
              is_open == current_workspace_object # None
                             /\ current_workspace_object.name = n
          IN  ( lastCall'.op = "delete" /\ delete_workspace(n) )
              => IF is_open
                 THEN /\ lastCall'.result = "false"
                      /\ dirs' = dirs
                      /\ files' = files
                      /\ available_workspaces' = available_workspaces
                      /\ registry_file' = registry_file
                      /\ current_workspace_object' = current_workspace_object
                 ELSE /\ lastCall'.result = "true"
                      /\ path \notin dirs'
                      /\ path \notin DOMAIN files'
                      /\ n \notin DOMAIN available_workspaces'
                      /\ registry_file' = Json(available_workspaces')
                      /\ OpenOutcome(n, <<>>, "none")' = "not_found" ]_vars

C12_Witness ==
    /\ lastCall.op = "delete"
    /\ lastCall.note = "is_open"
    /\ current_workspace_object # None
    /\ current_workspace_object.name \in DOMAIN available_workspaces
    /\ available_workspaces[current_workspace_object.name] \in DOMAIN files

C14_RegistrySelfHeals ==
    [][ ( lastCall'.op = "load_workspaces" /\ load_workspaces )
        => LET loaded == LoadedRegistry
               Stale(n) == loaded[n] \notin dirs \/ loaded[n] \notin DOMAIN files
           IN  /\ \A n \in DOMAIN available_workspaces' :
                      /\ available_workspaces'[n] \in dirs'
                      /\ available_workspaces'[n] \in DOMAIN files'
               /\ \A n \in DOMAIN loaded : Stale(n) => n \notin DOMAIN available_workspaces'
               /\ (\E n \in DOMAIN loaded : Stale(n))
                      => registry_file' = Json(available_workspaces') ]_vars

\* C15: a registry file that is empty, does not parse, or parses to something
\* that is not a mapping makes load_workspaces return an empty registry and
\* rewrite the file as the empty registry, and the call returns normally.
C15_BrokenRegistryResets ==
    [][ ( /\ lastCall'.op = "load_workspaces"
          /\ registry_file \in BrokenRegistryFiles
          /\ load_workspaces )
        => ( /\ available_workspaces' = EmptyDict
             /\ registry_file' = Json(EmptyDict)
             /\ lastCall'.result = "-" ) ]_vars

C15_Witness ==
    /\ lastCall.op = "load_workspaces"
    /\ lastCall.note = "starting_fresh"
    /\ available_workspaces = EmptyDict
    /\ registry_file = Json(EmptyDict)
    /\ DOMAIN files # {}

\* C16: open of a workspace whose data file cannot be decoded returns no
\* workspace and leaves the open slot (empty if it was empty), the registry in
\* memory and the registry file as they were.
C16_BadDataFileIsLocal ==
    [][ \A n \in OpenNameInputs \cap DOMAIN available_workspaces :
          ( /\ lastCall'.op = "open"
            /\ available_workspaces[n] \in DOMAIN files
            /\ ~ParsesAsPlaintext(files[available_workspaces[n]])
            /\ open_workspace(n, <<>>, "none") )
          => ( /\ lastCall'.result = "none"
               /\ current_workspace_object' = current_workspace_object
               /\ available_workspaces' = available_workspaces
               /\ registry_file' = registry_file ) ]_vars

C16_Witness ==
    /\ lastCall.op = "open"
    /\ lastCall.note = "decode_error"
    /\ current_workspace_object = None
    /\ DOMAIN available_workspaces = OpenNameInputs
    /\ registry_file = Json(available_workspaces)

\* C18: restoring an archived Card whose recorded source List is not live on
\* the Board is rejected: the Card is added to no live List and the live Lists
\* stay as they were; a Card that a restore puts into a live List goes into the
\* List that has its recorded source-list name.
C18_RestoreNeedsSourceList ==
    [][ \A n \in BoardCardNames :
          ( /\ lastCall'.op = "restore_item"
            /\ find_card_by_name(app.board.bin, n) # 0
            /\ restore_item(n, "card") )
          => LET b == app.board
                 InLive(board, card) ==
                     \E i \in DOMAIN board.lists : \E j \in DOMAIN board.lists[i].cards :
                         board.lists[i].cards[j] = card
                 card_entry == b.bin.archived_cards[find_card_by_name(b.bin, n)]
             IN  /\ find_list_by_name(b, card_entry.source_list) = 0
                      => ( /\ lastCall'.note = "list_not_found"
                           /\ ~InLive(app'.board, card_entry.card)
                           /\ app'.board.lists = b.lists )
                 /\ \A e \in DOMAIN b.bin.archived_cards :
                      LET entry == b.bin.archived_cards[e] IN
                      InLive(app'.board, entry.card)
                          => ( /\ find_list_by_name(b, entry.source_list) # 0
                               /\ \E i \in DOMAIN app'.board.lists :
                                    /\ lower(app'.board.lists[i].name)
                                           = lower(entry.source_list)
                                    /\ \E j \in DOMAIN app'.board.lists[i].cards :
                                           app'.board.lists[i].cards[j] = entry.card ) ]_vars

\* the source List of the Card is in the Bin, another List is live, and the
\* restore of the Card was rejected
C18_Witness ==
    /\ lastCall.op = "restore_item"
    /\ lastCall.note = "list_not_found"
    /\ app.board.bin.archived_lists # <<>>
    /\ app.board.bin.archived_cards = <<>>
    /\ app.board.lists # <<>>
    /\ \A i \in DOMAIN app.board.lists : app.board.lists[i].cards = <<>>

\* C19: the completed-list designation is unset or the name of a live List;
\* moving the designated List to the Bin unsets it, renaming the designated
\* List makes it the new name, and setting it to a name no live List has is
\* refused.
C19_CompletedListIsLive ==
    /\ [] ( OnBoardScreen
              => \/ app.board.completed_list_name = PNone
                 \/ \E i \in DOMAIN app.board.lists :
                        app.board.lists[i].name = app.board.completed_list_name )
    /\ [][ /\ \A k \in 1..MaxIds :
                ( /\ lastCall'.op = "move_to_bin"
                  /\ move_to_bin(k)
                  /\ app.board.completed_list_name = app.board.lists[k].name )
                => app'.board.completed_list_name = PNone
           /\ \A k \in 1..MaxIds, n \in BoardListNames :
                ( /\ lastCall'.op = "rename_list"
                  /\ lastCall'.note = "renamed"
                  /\ rename_callback(k, n)
                  /\ app.board.completed_list_name = app.board.lists[k].name )
                => app'.board.completed_list_name = n
           /\ \A n \in BoardListNames :
                ( /\ lastCall'.op = "set_completed_list"
                  /\ board_set_completed_list(n)
                  /\ \A i \in DOMAIN app.board.lists : app.board.lists[i].name # n )
                => ( /\ lastCall'.result = "false"
                     /\ app'.board.completed_list_name
                            = app.board.completed_list_name ) ]_vars

C19_Witness ==
    /\ lastCall.op = "rename_list"
    /\ lastCall.result = "completed_list_renamed"
    /\ app.board.completed_list_name # PNone
    /\ app.board.bin.archived_lists # <<>>

\* C20: a drop of Card X, taken from List A, on a List B of another name leaves
\* X out of A, once in B, and the number of cards over all live Lists as it was.
C20_MoveKeepsCards ==
    [][ \A ks \in 1..MaxIds, j \in 1..MaxIds, kt \in 1..MaxIds, index \in 0..MaxIds :
          ( /\ lastCall'.op = "drop"
            /\ perform_drop(ks, j, kt, index)
            /\ app.board.lists[ks].name # app.board.lists[kt].name )
          => LET b == app.board
                 A == FirstNamed(b.lists, b.lists[ks].name)
                 B == FirstNamed(b.lists, b.lists[kt].name)
                 X == b.lists[A].cards[j]
                 Count(l) == Cardinality({ i \in DOMAIN l.cards : l.cards[i] = X })
                 Total(board) ==
                     Cardinality(UNION { { << i, c >> : c \in DOMAIN board.lists[i].cards } :
                                         i \in DOMAIN board.lists })
             IN  /\ lastCall'.note = "moved"
                 /\ Count(app'.board.lists[A]) = 0
                 /\ Count(app'.board.lists[B]) = 1
                 /\ Total(app'.board) = Total(b)
                 /\ Len(app'.board.lists) = Len(b.lists) ]_vars

C20_Witness ==
    /\ lastCall.op = "drop"
    /\ lastCall.note = "moved"
    /\ lastCall.arg[1] # lastCall.arg[2]
    /\ \E i \in DOMAIN app.board.lists :
          /\ app.board.lists[i].name = lastCall.arg[2]
          /\ app.board.lists[i].cards # <<>>

\* C21: a drop whose source and target List are the same List leaves every
\* List's card sequence exactly as it was.
C21_SameListMoveIsNoOp ==
    [][ \A ks \in 1..MaxIds, j \in 1..MaxIds, kt \in 1..MaxIds, index \in 0..MaxIds :
          ( /\ lastCall'.op = "drop"
            /\ perform_drop(ks, j, kt, index)
            /\ FirstNamed(app.board.lists, app.board.lists[ks].name)
                   = FirstNamed(app.board.lists, app.board.lists[kt].name) )
          => app'.board.lists = app.board.lists ]_vars

C24_FailedCallsChangeNothing ==
    [][ ( /\ lastCall'.op \in { "save", "set_pwd" }
          /\ lastCall'.result = "false" )
        => UNCHANGED current_workspace_object ]_vars

\* C25: a create_workspace that fails on an OSError after its checks leaves
\* the directories, the data files and the registry as they were, and one
\* that returns the new workspace has its entry in workspaces.json as well
\* as in available_workspaces.
C25_CreateIsAtomic ==
    [][ lastCall'.op = "create" =>
          /\ lastCall'.note = "oserror" =>
               /\ dirs' = dirs
               /\ files' = files
               /\ available_workspaces' = available_workspaces
               /\ registry_file' = registry_file
          /\ lastCall'.result = "ok" =>
               /\ lastCall'.arg \in DOMAIN available_workspaces'
               /\ registry_file'.kind = "json"
               /\ registry_file'.isdict
               /\ lastCall'.arg \in DOMAIN registry_file'.val ]_vars

\* C26: no List and no Card is in the Board's live tree and in its Bin at the
\* same time; a delete takes one item out of the live tree and has it in the
\* Bin, a restore takes one item out of the Bin and has it in the live tree.
C26_MovedOwnership ==
    /\ [](OnBoardScreen =>
            /\ LiveLists(app.board) \cap BinLists(app.board) = {}
            /\ LiveCards(app.board) \cap BinCards(app.board) = {})
    /\ [][ LET b == app.board
               after == app'.board
           IN  /\ (lastCall'.op = "delete_card" /\ lastCall'.result = "true") =>
                     \E c \in LiveCards(b) :
                        /\ LiveCards(after) = LiveCards(b) \ { c }
                        /\ BinCards(after) = BinCards(b) \cup { c }
               /\ (lastCall'.op = "move_to_bin" /\ lastCall'.result = "true") =>
                     \E l \in LiveLists(b) :
                        /\ LiveLists(after) = LiveLists(b) \ { l }
                        /\ BinLists(after) = BinLists(b) \cup { l }
               /\ (lastCall'.op = "restore_item" /\ lastCall'.note = "restored"
                        /\ lastCall'.result = "list") =>
                     \E l \in BinLists(b) :
                        /\ BinLists(after) = BinLists(b) \ { l }
                        /\ LiveLists(after) = LiveLists(b) \cup { l }
               /\ (lastCall'.op = "restore_item" /\ lastCall'.note = "restored"
                        /\ lastCall'.result = "card") =>
                     \E c \in BinCards(b) :
                        /\ c \notin BinCards(after)
                        /\ c \in LiveCards(after) ]_vars
C26_Witness ==
    /\ OnBoardScreen
    /\ lastCall.op = "restore_item"
    /\ lastCall.note = "restored"
    /\ lastCall.result = "card"
    /\ BinLists(app.board) # {}

\* C27: every Card's priority is an integer in 0..5 at all times, on disk as
\* in memory; creating, editing and set-priority never store another value,
\* and a set-priority that is rejected leaves the Cards as they were.
C27_PriorityInRange ==
    /\ [](OnCardList =>
            /\ \A j \in DOMAIN app.cards : app.cards[j].priority \in 0..5
            /\ \A j \in DOMAIN app.disk : app.disk[j].priority \in 0..5)
    /\ [][ ( /\ lastCall'.op = "set_priority"
             /\ lastCall'.note \in { "out_of_range", "invalid_input" } )
           => UNCHANGED app ]_vars
C27_Witness ==
    /\ OnCardList
    /\ lastCall.op = "set_priority"
    /\ lastCall.note = "out_of_range"
    /\ \E j \in DOMAIN app.cards : app.cards[j].priority = 5

\* C28: the Bin never holds two archived Lists of one list_id nor two archived
\* Cards of one card_id; archiving a List or Card whose identity is already
\* in the Bin leaves the Bin unchanged, and so does Bin.from_dict(Bin.to_dict()).
C28_ArchiveOncePerIdentity ==
    /\ [](OnBin =>
            /\ \A i, j \in DOMAIN app.bin.archived_lists :
                   app.bin.archived_lists[i].list_id = app.bin.archived_lists[j].list_id
                       => i = j
            /\ \A i, j \in DOMAIN app.bin.archived_cards :
                   app.bin.archived_cards[i].card.card_id = app.bin.archived_cards[j].card.card_id
                       => i = j)
    /\ [][ /\ ( /\ lastCall'.op = "move_list_to_bin"
                /\ \E i \in DOMAIN app.bin.archived_lists :
                       app.bin.archived_lists[i].list_id = lastCall'.arg )
              => (app'.bin = app.bin /\ lastCall'.result = "false")
           /\ ( /\ lastCall'.op = "move_card_to_bin"
                /\ \E i \in DOMAIN app.bin.archived_cards :
                       app.bin.archived_cards[i].card.card_id = lastCall'.arg )
              => app'.bin = app.bin
           /\ lastCall'.op = "from_dict" => app'.bin = app.bin ]_vars
C28_Witness ==
    /\ OnBin
    /\ lastCall.op = "move_list_to_bin"
    /\ lastCall.result = "false"
    /\ Len(app.bin.archived_lists) >= 2
    /\ app.bin.archived_cards # << >>

C30_ChangeNeedsCurrentPassword ==
    [][ ( /\ lastCall'.op = "set_pwd"
          /\ current_workspace_object.pwd # PNone )
        => \A new \in NewPwdInputs, old \in OldPwdInputs :
             ws_set_pwd(new, old) =>
               /\ (old = PNone \/ old # current_workspace_object.pwd) =>
                    /\ lastCall'.result = "false"
                    /\ UNCHANGED << current_workspace_object, files, registry_file,
                                    available_workspaces >>
               /\ current_workspace_object'.pwd # current_workspace_object.pwd =>
                    /\ old = current_workspace_object.pwd
                    /\ lastCall'.result = "true" ]_vars
C30_Witness ==
    /\ lastCall.op = "set_pwd"
    /\ lastCall.result = "false"
    /\ current_workspace_object # None
    /\ current_workspace_object.pwd = "p"
    /\ \E p \in DOMAIN files :
          files[p].kind = "json" /\ files[p].val.pwd = "p"

\* C31: permanently deleting archived List L on the bin screen leaves no
\* archived Card tagged with source list L, and leaves every archived Card
\* tagged with another source list in the Bin.
C31_PurgeOnlyTaggedCards ==
    [][ ( /\ lastCall'.op = "delete_item_permanently"
          /\ lastCall'.result = "list"
          /\ lastCall'.note = "deleted" )
        => LET L == lastCall'.arg
               before == app.board.bin.archived_cards
               after == app'.board.bin.archived_cards
           IN  /\ \A i \in DOMAIN after : after[i].source_list # L
               /\ \A i \in DOMAIN before :
                      before[i].source_list # L
                          => \E j \in DOMAIN after : after[j] = before[i] ]_vars

\* C32: at all times no two live Lists of the Board have names that are equal
\* ignoring case, whatever was created, renamed, moved to the bin or restored.
C32_LiveListNamesUnique ==
    OnBoardScreen =>
        \A i, j \in DOMAIN app.board.lists :
            lower(app.board.lists[i].name) = lower(app.board.lists[j].name) => i = j

\* C33: after a restore of a List on the bin screen every List that was in
\* the Bin before, with the Cards it holds, is live on the Board or still in
\* the Bin.
C33_RestoreKeepsTheList ==
    [][ ( /\ lastCall'.op = "restore_item"
          /\ lastCall'.result = "list" )
        => \A i \in DOMAIN app.board.bin.archived_lists :
             LET l == app.board.bin.archived_lists[i] IN
             \/ \E j \in DOMAIN app'.board.lists : app'.board.lists[j] = l
             \/ \E j \in DOMAIN app'.board.bin.archived_lists :
                    app'.board.bin.archived_lists[j] = l ]_vars
C33_Witness ==
    /\ OnBoardScreen
    /\ lastCall.op = "restore_item"
    /\ lastCall.result = "list"
    /\ lastCall.note = "restored"
    /\ \E i, j \in DOMAIN app.board.lists :
          /\ i # j
          /\ app.board.lists[i].name = app.board.lists[j].name
          /\ app.board.lists[j].cards # << >>

\* C34: restoring or permanently deleting an archived List by name removes
\* exactly one archived List when the Bin holds Lists of that name, the
\* others staying in the Bin, and leaves the Bin unchanged when it holds none.
C34_ByNameActsOnOne ==
    [][ ( /\ lastCall'.op \in { "restore_item", "delete_item_permanently" }
          /\ lastCall'.result = "list" )
        => LET before == app.board.bin.archived_lists
               after == app'.board.bin.archived_lists
           IN  IF lastCall'.note = "not_in_bin"
               THEN app'.board.bin = app.board.bin
               ELSE /\ Len(after) = Len(before) - 1
                    /\ \E i \in DOMAIN before : after = RemoveAt(before, i) ]_vars

C36_FlowsLeaveNothingOpen ==
    [][ lastCall'.op \in { "rename_password_check_callback",
                           "change_password_confirm_callback",
                           "set_password_callback" }
        => current_workspace_object' = None ]_vars
C36_Witness ==
    /\ lastCall.op = "set_password_callback"
    /\ lastCall.note = "ioerror"
    /\ current_workspace_object = None
    /\ \E path \in DOMAIN saved : saved[path].pwd = "p"

\* C37: set_password_callback tells the user "Password updated." only when the
\* save inside it worked; when the save fails the data file stays as it was
\* and the user is not told that the password was updated.
C37_UpdatedMeansPersisted ==
    [][ lastCall'.op = "set_password_callback"
        => /\ lastCall'.result = "Password updated." => lastCall'.note = "saved"
           /\ lastCall'.note \in { "ioerror", "not_in_list" } => files' = files ]_vars

\* C38: start_drag during a drag returns False and changes nothing, and every
\* end_drag leaves the manager idle: is_dragging False, the dragged card, its
\* widget, the ghost and the original list cleared, the auto-scroll cancelled.
C38_EveryDragEnds ==
    [][ /\ (lastCall'.op = "start_drag" /\ app.manager.is_dragging)
            => (lastCall'.result = "False" /\ UNCHANGED app)
        /\ lastCall'.op = "end_drag" => app'.manager = NewDragDropManager ]_vars

\* C39: a rename_workspace_callback entered while _RENAME_IN_PROGRESS is set
\* returns without doing anything, and the flag is False whenever no caller
\* is between setting it and the end of its finally block, however the try
\* block ended.
C39_RenameLockIsReleased ==
    /\ [](OnRenameDialog =>
            ((\A c \in RenameCallers : app.at[c] \in { "out", "checked" })
                => ~app._RENAME_IN_PROGRESS))
    /\ [][ (lastCall'.op = "rename_workspace_callback" /\ lastCall'.note = "in_progress")
           => (app._RENAME_IN_PROGRESS /\ UNCHANGED app) ]_vars
C39_Witness ==
    /\ OnRenameDialog
    /\ lastCall.op = "rename_workspace_callback"
    /\ lastCall.note = "Failed to rename: exception"
    /\ \A c \in RenameCallers : app.at[c] = "out"
    /\ ~app._RENAME_IN_PROGRESS
====
